---- MODULE Spec2Model ----
(***************************************************************************)
(* Bitonic sort: the serial network (serial_bitonic.c, here                *)
(* src/unnamed/part_005), the shared-memory executor                       *)
(* (src/OpenMP/openmp_bitonic.c), the distributed executor                 *)
(* (src/MPI/mpi_bitonic.c) and the file-based programs                     *)
(* (src/OpenMP/bitonic_openmp.c, src/unnamed/part_004).                    *)
(*                                                                         *)
(* C arrays are functions over 0..n-1.  A direction is the C int 1         *)
(* (ascending) or 0 (descending).                                          *)
(***************************************************************************)
EXTENDS Integers, Sequences, FiniteSets, TLC

VARIABLES
    prog,       \* which program runs
    arr,        \* the array being sorted (shared by all threads)
    input,      \* the array as it was handed to the sort
    direction,  \* direction of the top-level call
    stack,      \* serial: the calls and loops still to run, innermost first
    frames,     \* openmp: the live activations, keyed by call path
    inflight,   \* openmp: compare_and_swap calls begun and not yet completed
    nthreads,   \* openmp: OMP_NUM_THREADS
    unit,       \* openmp: elements one model element stands for (see RealCount)
    returned,   \* openmp: call paths of the activations that have returned
    world,      \* mpi: num_procs
    lsize,      \* mpi: local_size
    block,      \* mpi: local_arr of every rank
    mpc,        \* mpi: where every rank is in advanced_bitonic_sort_mpi
    stage,      \* mpi: loop variable stage of every rank
    step,       \* mpi: loop variable step of every rank
    chan,       \* mpi: messages sent and not yet received, per (source, destination)
    recvbuf,    \* mpi: recv_buffer of every rank
    tempbuf,    \* mpi: temp_buffer of every rank
    rounds,     \* mpi: merge-split rounds every rank has completed
    fpc,        \* file programs: where main (rank 0's main) is
    passk,      \* bitonic_openmp.c: loop variable k of bitonic_sort
    passj,      \* bitonic_openmp.c: loop variable j of bitonic_sort
    cursor,     \* bitonic_openmp.c: next iteration i of every thread of the team
    merge_width,\* second program of part_004: loop variable merge_width
    output,     \* file programs: the values written to the output file
    argv1,      \* size-argument programs: argv[1], a sequence of characters
    reported    \* size-argument programs: an error message has been printed

NetVars == <<prog, arr, input, direction, stack, frames, inflight, nthreads, unit, returned>>

MpiVars == <<world, lsize, block, mpc, stage, step, chan, recvbuf, tempbuf, rounds>>

FileVars == <<fpc, passk, passj, cursor, merge_width, output>>

MainVars == <<argv1, reported>>

vars == <<NetVars, MpiVars, FileVars, MainVars>>

\* the distributed executor is not running
MpiOff ==
    /\ world = 0
    /\ lsize = 0
    /\ block = <<>>
    /\ mpc = <<>>
    /\ stage = <<>>
    /\ step = <<>>
    /\ chan = <<>>
    /\ recvbuf = <<>>
    /\ tempbuf = <<>>
    /\ rounds = <<>>

\* no file-based program is running
FileOff ==
    /\ fpc = "off"
    /\ passk = 0
    /\ passj = 0
    /\ cursor = <<>>
    /\ merge_width = 0
    /\ output = <<>>

\* no main of a size-argument program is running
MainOff ==
    /\ argv1 = <<>>
    /\ reported = FALSE

OtherOff == MpiOff /\ FileOff /\ MainOff

OtherIdle == UNCHANGED <<MpiVars, FileVars, MainVars>>

(***************************************************************************)
(* Bounds                                                                  *)
(***************************************************************************)
\* array values are drawn from 0..MaxVal
MaxVal == 1
Vals == 0 .. MaxVal
\* array lengths of the serial network
Lengths == {1, 2, 4, 8}
\* up to this length every array over Vals is an input; longer inputs are
\* the arrays of zeros and ones and the scenario of the specification
MaxFull == 4
\* the scenario of the specification
Example == [i \in 0 .. 7 |-> <<5, 3, 8, 1, 9, 2, 7, 4>>[i + 1]]

(***************************************************************************)
(* Helpers on arrays                                                       *)
(***************************************************************************)
Len0(a) == Cardinality(DOMAIN a)

Range(a) == {a[i] : i \in DOMAIN a}

CountOf(a, v) == Cardinality({i \in DOMAIN a : a[i] = v})

SameMultiset(a, b) ==
    \A v \in Range(a) \cup Range(b) : CountOf(a, v) = CountOf(b, v)

Ascending(a, lo, n) == \A i \in lo .. lo + n - 2 : a[i] <= a[i + 1]

Descending(a, lo, n) == \A i \in lo .. lo + n - 2 : a[i] >= a[i + 1]

Monotonic(a, lo, n, dir) ==
    IF dir = 1 THEN Ascending(a, lo, n) ELSE Descending(a, lo, n)

\* the value of a C comparison
CBool(b) == IF b THEN 1 ELSE 0

(***************************************************************************)
(* Serial network (part_005)                                               *)
(***************************************************************************)
compare_and_swap_always(a, i, j, ascending) ==
    [a EXCEPT ![i] = a[j], ![j] = a[i]]

compare_and_swap_reversed(a, i, j, ascending) ==
    IF CBool(a[i] < a[j]) = ascending
    THEN [a EXCEPT ![i] = a[j], ![j] = a[i]]
    ELSE a

compare_and_swap_no_temp(a, i, j, ascending) ==
    IF CBool(a[i] > a[j]) = ascending
    THEN [a EXCEPT ![i] = a[j]]
    ELSE a

compare_and_swap(a, i, j, ascending) ==
    IF CBool(a[i] > a[j]) = ascending
    THEN [a EXCEPT ![i] = a[j], ![j] = a[i]]
    ELSE a

RECURSIVE merge_loop(_, _, _, _, _)
\* the for loop of bitonic_merge, from index i up to hi - 1
merge_loop(a, i, hi, k, ascending) ==
    IF i < hi
    THEN merge_loop(compare_and_swap(a, i, i + k, ascending), i + 1, hi, k, ascending)
    ELSE a

RECURSIVE bitonic_merge(_, _, _, _)
bitonic_merge(a, low, count, ascending) ==
    IF count > 1
    THEN bitonic_merge(
             bitonic_merge(
                 merge_loop(a, low, low + count \div 2, count \div 2, ascending),
                 low, count \div 2, ascending),
             low + count \div 2, count \div 2, ascending)
    ELSE a

RECURSIVE bitonic_sort_recursive(_, _, _, _)
bitonic_sort_recursive(a, low, count, ascending) ==
    IF count > 1
    THEN bitonic_merge(
             bitonic_sort_recursive(
                 bitonic_sort_recursive(a, low, count \div 2, 1),
                 low + count \div 2, count \div 2, 0),
             low, count, ascending)
    ELSE a

bitonic_sort(a, size) == bitonic_sort_recursive(a, 0, size, 1)

\* The same code as a machine: `stack' holds the calls and the loop still to
\* run; its head is the statement being executed.
Call(op, low, count, ascending) ==
    [op |-> op, low |-> low, count |-> count, ascending |-> ascending]

InputsOfLength(n) ==
    IF n <= MaxFull THEN [0 .. n - 1 -> Vals] ELSE [0 .. n - 1 -> {0, 1}]

SerialInputs ==
    UNION {InputsOfLength(n) : n \in Lengths} \cup {Example}

SerialInit ==
    /\ prog = "serial"
    /\ input \in SerialInputs
    /\ arr = input
    /\ direction \in {0, 1}
    /\ stack = <<Call("sort", 0, Len0(input), direction)>>
    /\ frames = <<>>
    /\ inflight = {}
    /\ nthreads = 1
    /\ unit = 1
    /\ returned = {}
    /\ OtherOff

SerialIdle ==
    /\ UNCHANGED <<prog, input, direction, frames, inflight, nthreads, unit, returned>>
    /\ OtherIdle

SerialSortPastEnd ==
    /\ prog = "serial"
    /\ stack # <<>>
    /\ Head(stack).op = "sort"
    /\ LET c == Head(stack)
           k == c.count \div 2
       IN  \/ /\ c.count > 1
              /\ stack' = <<Call("sort", c.low, k, 1),
                            Call("sort", c.low + c.count, k, 0),
                            Call("merge", c.low, c.count, c.ascending)>>
                          \o Tail(stack)
           \/ /\ ~(c.count > 1)
              /\ stack' = Tail(stack)
    /\ UNCHANGED arr
    /\ SerialIdle

\* bitonic_sort_recursive: the two recursive sorts, then the merge
SerialSort ==
    /\ prog = "serial"
    /\ stack # <<>>
    /\ Head(stack).op = "sort"
    /\ LET c == Head(stack)
           k == c.count \div 2
       IN  \/ /\ c.count > 1
              /\ stack' = <<Call("sort", c.low, k, 1),
                            Call("sort", c.low + k, k, 0),
                            Call("merge", c.low, c.count, c.ascending)>>
                          \o Tail(stack)
           \/ /\ ~(c.count > 1)
              /\ stack' = Tail(stack)
    /\ UNCHANGED arr
    /\ SerialIdle

SerialMergeLowerOnly ==
    /\ prog = "serial"
    /\ stack # <<>>
    /\ Head(stack).op = "merge"
    /\ LET c == Head(stack)
           k == c.count \div 2
       IN  \/ /\ c.count > 1
              /\ stack' = <<[op |-> "loop", low |-> c.low, count |-> c.count,
                             ascending |-> c.ascending, i |-> c.low],
                            Call("merge", c.low, k, c.ascending)>>
                          \o Tail(stack)
           \/ /\ ~(c.count > 1)
              /\ stack' = Tail(stack)
    /\ UNCHANGED arr
    /\ SerialIdle

\* bitonic_merge: the compare-and-swap loop, then the two recursive merges
SerialMerge ==
    /\ prog = "serial"
    /\ stack # <<>>
    /\ Head(stack).op = "merge"
    /\ LET c == Head(stack)
           k == c.count \div 2
       IN  \/ /\ c.count > 1
              /\ stack' = <<[op |-> "loop", low |-> c.low, count |-> c.count,
                             ascending |-> c.ascending, i |-> c.low],
                            Call("merge", c.low, k, c.ascending),
                            Call("merge", c.low + k, k, c.ascending)>>
                          \o Tail(stack)
           \/ /\ ~(c.count > 1)
              /\ stack' = Tail(stack)
    /\ UNCHANGED arr
    /\ SerialIdle

\* one iteration of the loop of bitonic_merge, or its exit
SerialLoop ==
    /\ prog = "serial"
    /\ stack # <<>>
    /\ Head(stack).op = "loop"
    /\ LET c == Head(stack)
           k == c.count \div 2
       IN  \/ /\ c.i < c.low + k
              /\ arr' = compare_and_swap(arr, c.i, c.i + k, c.ascending)
              /\ stack' = <<[c EXCEPT !.i = c.i + 1]>> \o Tail(stack)
           \/ /\ ~(c.i < c.low + k)
              /\ arr' = arr
              /\ stack' = Tail(stack)
    /\ SerialIdle

SerialDone == prog = "serial" /\ stack = <<>>

(***************************************************************************)
(* Shared-memory executor (OpenMP/openmp_bitonic.c)                        *)
(*                                                                         *)
(* Every activation of bitonic_sort_recursive_parallel and                 *)
(* bitonic_merge_parallel is a frame, keyed by its call path: the children *)
(* of the frame at path p are p \o <<1>> and p \o <<2>> (the two recursive *)
(* calls) and, for a sort, p \o <<3>> (its merge).  A frame is removed     *)
(* when its function returns.  Frames that are live together and not       *)
(* waiting run in any interleaving.                                        *)
(***************************************************************************)
ADAPTIVE_THRESHOLD == 512
MIN_PARALLEL_SIZE == 64
\* omp_set_max_active_levels(3)
MaxActiveLevels == 3

\* TLC cannot enumerate arrays of more than ADAPTIVE_THRESHOLD elements, and
\* below it the executor never forks.  A model array of n elements stands
\* for the top of the recursion on n * unit elements: the length compared
\* with the thresholds is the real one.
UnitsOfLength(n) == IF n <= MaxFull THEN {1, 128, 256, 512, 1024} ELSE {512, 1024}
\* lengths of the arrays of the executor: every array over Vals up to
\* MaxFull, the scenario of the specification beyond
OmpLengths == {2, 4}

RealCount(count) == count * unit

SortStrategyFromThreshold(count) ==
    IF count > ADAPTIVE_THRESHOLD * 4
    THEN IF count > ADAPTIVE_THRESHOLD * 8 THEN "task" ELSE "undeferred"
    ELSE IF count >= ADAPTIVE_THRESHOLD THEN "sections" ELSE "sequential"

\* lines 206-237: how the two recursive sorts of a segment are run
SortStrategy(count) ==
    IF count > ADAPTIVE_THRESHOLD * 4
    THEN IF count > ADAPTIVE_THRESHOLD * 8 THEN "task" ELSE "undeferred"
    ELSE IF count > ADAPTIVE_THRESHOLD THEN "sections" ELSE "sequential"

\* lines 163-187: how the two recursive merges of a segment are run
MergeStrategy(count) ==
    IF count > ADAPTIVE_THRESHOLD * 2
    THEN IF count > ADAPTIVE_THRESHOLD * 4 THEN "task" ELSE "undeferred"
    ELSE IF count > ADAPTIVE_THRESHOLD THEN "sections" ELSE "sequential"

\* lines 145-160: whether the compare-and-swap loop is a parallel region
LoopStrategy(count) ==
    IF count >= MIN_PARALLEL_SIZE /\ count > ADAPTIVE_THRESHOLD
    THEN "parallel_for" ELSE "sequential"

TeamForksAlways(level) == TRUE

\* A nested parallel region gets a team of more than one thread only below
\* the active-level limit and when more than one thread is allowed.
TeamForks(level) == level < MaxActiveLevels /\ nthreads > 1

\* the two branches are live together: deferred tasks, or sections of a
\* team of more than one thread
Concurrent(strategy, level) ==
    \/ strategy = "task"
    \/ strategy = "sections" /\ TeamForks(level)

ChildLevel(strategy, level) ==
    IF strategy = "sections" /\ TeamForks(level) THEN level + 1 ELSE level

HalfDirectionSame(c) == 1

\* lines 212 and 217: the first half is sorted ascending, the second descending
HalfDirection(c) == IF c = 1 THEN 1 ELSE 0

Frame(fn, low, count, ascending, level) ==
    [fn |-> fn, low |-> low, count |-> count, ascending |-> ascending,
     pc |-> "entry", level |-> level, todo |-> {}]

IsPrefix(p, q) == Len(p) <= Len(q) /\ SubSeq(q, 1, Len(p)) = p

Live(p) == p \in DOMAIN frames

Without(f, p) == [q \in DOMAIN f \ {p} |-> f[q]]

\* the join: a taskwait, the barrier ending the sections, or the return of a
\* plain call.  The children named have all returned.
ChildrenDoneEarly(p, cs) == \E c \in cs : ~Live(p \o <<c>>)

ChildrenDone(p, cs) == \A c \in cs : ~Live(p \o <<c>>)

OmpInputs == UNION {InputsOfLength(n) : n \in OmpLengths} \cup {Example}

OmpInit ==
    /\ prog = "openmp"
    /\ input \in OmpInputs
    /\ arr = input
    /\ direction = 1
    /\ nthreads \in {1, 2, 4}
    /\ unit \in UnitsOfLength(Len0(input))
    /\ stack = <<>>
    /\ frames = (<<>> :> Frame("sort", 0, Len0(input), 1, 1))
    /\ inflight = {}
    /\ returned = {}
    /\ OtherOff

OmpIdle ==
    /\ UNCHANGED <<prog, input, direction, stack, nthreads, unit>>
    /\ OtherIdle

\* entry of bitonic_sort_recursive_parallel: fork or call the first half
OmpSortCall(p) ==
    /\ prog = "openmp" /\ Live(p)
    /\ frames[p].fn = "sort" /\ frames[p].pc = "entry"
    /\ LET f == frames[p]
           k == f.count \div 2
           s == SortStrategy(RealCount(f.count))
           l == ChildLevel(s, f.level)
       IN  \/ /\ f.count > 1
              /\ Concurrent(s, f.level)
              /\ frames' = ((p \o <<1>>) :> Frame("sort", f.low, k, HalfDirection(1), l))
                           @@ ((p \o <<2>>) :> Frame("sort", f.low + k, k, HalfDirection(2), l))
                           @@ [frames EXCEPT ![p].pc = "join"]
              /\ returned' = returned
           \/ /\ f.count > 1
              /\ ~Concurrent(s, f.level)
              /\ frames' = ((p \o <<1>>) :> Frame("sort", f.low, k, HalfDirection(1), l))
                           @@ [frames EXCEPT ![p].pc = "first"]
              /\ returned' = returned
           \/ /\ ~(f.count > 1)
              /\ frames' = Without(frames, p)
              /\ returned' = returned \cup {p}
    /\ UNCHANGED <<arr, inflight>>
    /\ OmpIdle

\* the first half has returned: call the second half
OmpSortSecond(p) ==
    /\ prog = "openmp" /\ Live(p)
    /\ frames[p].fn = "sort" /\ frames[p].pc = "first"
    /\ ChildrenDone(p, {1})
    /\ LET f == frames[p]
           k == f.count \div 2
       IN  frames' = ((p \o <<2>>) :> Frame("sort", f.low + k, k, HalfDirection(2), f.level))
                     @@ [frames EXCEPT ![p].pc = "join"]
    /\ UNCHANGED <<arr, inflight, returned>>
    /\ OmpIdle

\* both halves are sorted: line 240, the merge of the segment
OmpSortMerge(p) ==
    /\ prog = "openmp" /\ Live(p)
    /\ frames[p].fn = "sort" /\ frames[p].pc = "join"
    /\ ChildrenDone(p, {1, 2})
    /\ LET f == frames[p]
       IN  frames' = ((p \o <<3>>) :> Frame("merge", f.low, f.count, f.ascending, f.level))
                     @@ [frames EXCEPT ![p].pc = "merging"]
    /\ UNCHANGED <<arr, inflight, returned>>
    /\ OmpIdle

OmpSortReturn(p) ==
    /\ prog = "openmp" /\ Live(p)
    /\ frames[p].fn = "sort" /\ frames[p].pc = "merging"
    /\ ChildrenDone(p, {3})
    /\ frames' = Without(frames, p)
    /\ returned' = returned \cup {p}
    /\ UNCHANGED <<arr, inflight>>
    /\ OmpIdle

\* entry of bitonic_merge_parallel: set up the compare-and-swap loop
OmpMergeCall(p) ==
    /\ prog = "openmp" /\ Live(p)
    /\ frames[p].fn = "merge" /\ frames[p].pc = "entry"
    /\ LET f == frames[p]
           k == f.count \div 2
       IN  \/ /\ f.count > 1
              /\ frames' = [frames EXCEPT ![p].pc = "loop",
                                          ![p].todo = f.low .. f.low + k - 1]
              /\ returned' = returned
           \/ /\ ~(f.count > 1)
              /\ frames' = Without(frames, p)
              /\ returned' = returned \cup {p}
    /\ UNCHANGED <<arr, inflight>>
    /\ OmpIdle

Mine(p) == {x \in inflight : x.path = p}

PartnerAdjacent(i, count) == i + 1

\* line 150: iteration i compares arr[i] with arr[i + k]
Partner(i, count) == i + count \div 2

SetMin(S) == CHOOSE m \in S : \A o \in S : m <= o

\* the iterations of the loop that may start now: any when the loop is a
\* parallel region with a team, else the next one in index order
Startable(p) ==
    LET f == frames[p]
    IN  IF LoopStrategy(RealCount(f.count)) = "parallel_for" /\ TeamForks(f.level)
        THEN f.todo
        ELSE IF Mine(p) = {} /\ f.todo # {} THEN {SetMin(f.todo)} ELSE {}

\* compare_and_swap, line 121: the comparison (reads arr[i] and arr[j])
OmpCompare(p, i) ==
    /\ prog = "openmp" /\ Live(p)
    /\ frames[p].fn = "merge" /\ frames[p].pc = "loop"
    /\ i \in Startable(p)
    /\ Cardinality(inflight) < nthreads
    /\ LET f == frames[p]
           j == Partner(i, f.count)
       IN  inflight' = inflight \cup
               {[path |-> p, i |-> i, j |-> j,
                 swap |-> CBool(arr[i] > arr[j]) = f.ascending]}
    /\ frames' = [frames EXCEPT ![p].todo = @ \ {i}]
    /\ UNCHANGED <<arr, returned>>
    /\ OmpIdle

\* compare_and_swap, lines 123-127: the swap (writes arr[i] and arr[j])
OmpSwap(x) ==
    /\ prog = "openmp"
    /\ x \in inflight
    /\ arr' = IF x.swap THEN [arr EXCEPT ![x.i] = arr[x.j], ![x.j] = arr[x.i]] ELSE arr
    /\ inflight' = inflight \ {x}
    /\ UNCHANGED <<frames, returned>>
    /\ OmpIdle

\* the loop is over (its barrier passed): fork or call the first half-merge
OmpMergeRecurse(p) ==
    /\ prog = "openmp" /\ Live(p)
    /\ frames[p].fn = "merge" /\ frames[p].pc = "loop"
    /\ frames[p].todo = {} /\ Mine(p) = {}
    /\ LET f == frames[p]
           k == f.count \div 2
           s == MergeStrategy(RealCount(f.count))
           l == ChildLevel(s, f.level)
       IN  \/ /\ Concurrent(s, f.level)
              /\ frames' = ((p \o <<1>>) :> Frame("merge", f.low, k, f.ascending, l))
                           @@ ((p \o <<2>>) :> Frame("merge", f.low + k, k, f.ascending, l))
                           @@ [frames EXCEPT ![p].pc = "join"]
           \/ /\ ~Concurrent(s, f.level)
              /\ frames' = ((p \o <<1>>) :> Frame("merge", f.low, k, f.ascending, l))
                           @@ [frames EXCEPT ![p].pc = "first"]
    /\ UNCHANGED <<arr, inflight, returned>>
    /\ OmpIdle

OmpMergeSecond(p) ==
    /\ prog = "openmp" /\ Live(p)
    /\ frames[p].fn = "merge" /\ frames[p].pc = "first"
    /\ ChildrenDone(p, {1})
    /\ LET f == frames[p]
           k == f.count \div 2
       IN  frames' = ((p \o <<2>>) :> Frame("merge", f.low + k, k, f.ascending, f.level))
                     @@ [frames EXCEPT ![p].pc = "join"]
    /\ UNCHANGED <<arr, inflight, returned>>
    /\ OmpIdle

OmpMergeReturn(p) ==
    /\ prog = "openmp" /\ Live(p)
    /\ frames[p].fn = "merge" /\ frames[p].pc = "join"
    /\ ChildrenDone(p, {1, 2})
    /\ frames' = Without(frames, p)
    /\ returned' = returned \cup {p}
    /\ UNCHANGED <<arr, inflight>>
    /\ OmpIdle

OmpDone == prog = "openmp" /\ DOMAIN frames = {}

Paths == DOMAIN frames

(***************************************************************************)
(* Distributed executor (MPI/mpi_bitonic.c)                                *)
(*                                                                         *)
(* Every rank runs advanced_bitonic_sort_mpi on its own block.  A message  *)
(* is a whole block; messages between two ranks are received in the order  *)
(* they were sent.                                                         *)
(***************************************************************************)
RECURSIVE BitAnd(_, _)
\* the C operator & on ints in two's complement (-1 is all ones)
BitAnd(x, y) ==
    IF x = 0 \/ y = 0 THEN 0
    ELSE IF x = -1 THEN y
    ELSE IF y = -1 THEN x
    ELSE (x % 2) * (y % 2) + 2 * BitAnd(x \div 2, y \div 2)

RECURSIVE BitXor(_, _)
\* the C operator ^ on non-negative ints
BitXor(x, y) ==
    IF x = 0 THEN y
    ELSE IF y = 0 THEN x
    ELSE ((x + y) % 2) + 2 * BitXor(x \div 2, y \div 2)

\* lines 121-130: compare_and_swap of the distributed program
compare_and_swap_local(a, i, j, ascending) ==
    IF CBool(a[i] > a[j]) = ascending
    THEN [a EXCEPT ![i] = a[j], ![j] = a[i]]
    ELSE a

RECURSIVE bitonic_merge_local(_, _, _)
\* lines 139-155: the calls <<i, j, ascending>> of compare_and_swap that
\* bitonic_merge(arr, low, count, ascending) makes, in order: the loop, then
\* the merge of the lower half, then the merge of the upper half
bitonic_merge_local(low, count, ascending) ==
    IF count > 1
    THEN [n \in 1 .. count \div 2 |->
              <<low + n - 1, low + n - 1 + count \div 2, ascending>>]
         \o bitonic_merge_local(low, count \div 2, ascending)
         \o bitonic_merge_local(low + count \div 2, count \div 2, ascending)
    ELSE <<>>

RECURSIVE bitonic_sort_recursive_local(_, _, _)
\* lines 164-179: the calls bitonic_sort_recursive makes, in order: the lower
\* half ascending, the upper half descending, the merge
bitonic_sort_recursive_local(low, count, ascending) ==
    IF count > 1
    THEN bitonic_sort_recursive_local(low, count \div 2, 1)
         \o bitonic_sort_recursive_local(low + count \div 2, count \div 2, 0)
         \o bitonic_merge_local(low, count, ascending)
    ELSE <<>>

\* the array after the calls of the sequence calls, made in order
after_calls(a, calls) ==
    LET run[m \in 0 .. Len(calls), d \in [DOMAIN a -> Int]] ==
            IF m = Len(calls) THEN d
            ELSE run[m + 1, compare_and_swap_local(d, calls[m + 1][1], calls[m + 1][2],
                                                   calls[m + 1][3])]
    IN  run[0, a]

bitonic_sort_local_descending(a, size) ==
    after_calls(a, bitonic_sort_recursive_local(0, size, 0))

\* lines 186-189
bitonic_sort_local(a, size) ==
    after_calls(a, bitonic_sort_recursive_local(0, size, 1))

RECURSIVE merge_two(_, _, _, _, _, _)
\* lines 237-256: the two-pointer merge of temp_buffer and recv_buffer,
\* from positions i and j on, appended to the sequence m
merge_two(t, r, size, i, j, m) ==
    IF i < size /\ j < size
    THEN IF t[i] <= r[j]
         THEN merge_two(t, r, size, i + 1, j, Append(m, t[i]))
         ELSE merge_two(t, r, size, i, j + 1, Append(m, r[j]))
    ELSE IF i < size THEN merge_two(t, r, size, i + 1, j, Append(m, t[i]))
    ELSE IF j < size THEN merge_two(t, r, size, i, j + 1, Append(m, r[j]))
    ELSE m

\* merged_arr as a C array
merged_arr(t, r, size) ==
    LET m == merge_two(t, r, size, 0, 0, <<>>)
    IN  [x \in 0 .. 2 * size - 1 |-> m[x + 1]]

\* line 259: this rank takes the smaller half
TakesSmaller(my_rank, partner_rank, ascending) ==
    \/ my_rank < partner_rank /\ ascending # 0
    \/ my_rank > partner_rank /\ ascending = 0

\* lines 258-268: the half of merged_arr copied back into arr
split(m, size, my_rank, partner_rank, ascending) ==
    IF TakesSmaller(my_rank, partner_rank, ascending)
    THEN [x \in 0 .. size - 1 |-> m[x]]
    ELSE [x \in 0 .. size - 1 |-> m[size + x]]

PartnerNext(rank, s) == rank + s

\* line 297
PartnerOf(rank, s) == BitXor(rank, s)

\* line 302
RoundAscending(rank, s) == CBool(BitAnd(rank, s) = 0)

Ranks == 0 .. world - 1

\* world sizes and block lengths
MpiWorlds == {1, 2, 4}
MpiBlockLengths == {1, 2}

\* the global array of a run of num_procs ranks
MpiInputs(np) ==
    UNION {InputsOfLength(np * n) :
               n \in {m \in MpiBlockLengths : np * m <= MaxFull}} \cup {Example}

\* MPI_Scatter: rank r gets elements r * local_size .. (r + 1) * local_size - 1
Scattered(g, np, r) ==
    LET n == Len0(g) \div np
    IN  [x \in 0 .. n - 1 |-> g[r * n + x]]

\* MPI_Gather: the blocks in rank order
Gathered ==
    [x \in 0 .. world * lsize - 1 |-> block[x \div lsize][x % lsize]]

MpiInit ==
    /\ prog = "mpi"
    /\ world \in MpiWorlds
    /\ input \in MpiInputs(world)
    /\ lsize = Len0(input) \div world
    /\ block = [r \in Ranks |-> Scattered(input, world, r)]
    /\ mpc = [r \in Ranks |-> "local_sort"]
    /\ stage = [r \in Ranks |-> 1]
    /\ step = [r \in Ranks |-> 1]
    /\ chan = [e \in Ranks \X Ranks |-> <<>>]
    /\ recvbuf = [r \in Ranks |-> <<>>]
    /\ tempbuf = [r \in Ranks |-> <<>>]
    /\ rounds = [r \in Ranks |-> 0]
    /\ arr = <<>>
    /\ direction = 1
    /\ stack = <<>>
    /\ frames = <<>>
    /\ inflight = {}
    /\ nthreads = 1
    /\ unit = 1
    /\ returned = {}
    /\ FileOff
    /\ MainOff

MpiIdle == UNCHANGED <<NetVars, world, lsize, FileVars, MainVars>>

\* line 289: phase 1, the local sort; then the loops are entered
MpiLocalSort(r) ==
    /\ prog = "mpi" /\ r \in Ranks
    /\ mpc[r] = "local_sort"
    /\ block' = [block EXCEPT ![r] = bitonic_sort_local(block[r], lsize)]
    /\ mpc' = [mpc EXCEPT ![r] = "loop"]
    /\ UNCHANGED <<stage, step, chan, recvbuf, tempbuf, rounds>>
    /\ MpiIdle

\* lines 292-299 and 220-230: the loop tests; with a partner in range the
\* rank posts MPI_Isend and MPI_Irecv and copies its block to temp_buffer
MpiExchange(r) ==
    /\ prog = "mpi" /\ r \in Ranks
    /\ mpc[r] = "loop"
    /\ LET partner == PartnerOf(r, step[r])
       IN  \/ /\ stage[r] < world
              /\ partner < world
              /\ chan' = [chan EXCEPT ![<<r, partner>>] = Append(@, block[r])]
              /\ tempbuf' = [tempbuf EXCEPT ![r] = block[r]]
              /\ mpc' = [mpc EXCEPT ![r] = "wait"]
              /\ UNCHANGED <<stage, step>>
           \/ /\ stage[r] < world
              /\ ~(partner < world)
              /\ step' = [step EXCEPT ![r] =
                              IF step[r] \div 2 > 0 THEN step[r] \div 2 ELSE stage[r] * 2]
              /\ stage' = [stage EXCEPT ![r] =
                              IF step[r] \div 2 > 0 THEN stage[r] ELSE stage[r] * 2]
              /\ UNCHANGED <<chan, tempbuf, mpc>>
           \/ /\ ~(stage[r] < world)
              /\ mpc' = [mpc EXCEPT ![r] = "done"]
              /\ UNCHANGED <<stage, step, chan, tempbuf>>
    /\ UNCHANGED <<block, recvbuf, rounds>>
    /\ MpiIdle

MpiWaitRecvNewest(r) ==
    /\ prog = "mpi" /\ r \in Ranks
    /\ mpc[r] = "wait"
    /\ LET partner == PartnerOf(r, step[r])
           q == chan[<<partner, r>>]
       IN  /\ q # <<>>
           /\ recvbuf' = [recvbuf EXCEPT ![r] = q[Len(q)]]
           /\ chan' = [chan EXCEPT ![<<partner, r>>] = SubSeq(q, 1, Len(q) - 1)]
    /\ mpc' = [mpc EXCEPT ![r] = "merge"]
    /\ UNCHANGED <<block, stage, step, tempbuf, rounds>>
    /\ MpiIdle

\* line 233: MPI_Wait(&recv_req) returns when the partner's block has arrived
MpiWaitRecv(r) ==
    /\ prog = "mpi" /\ r \in Ranks
    /\ mpc[r] = "wait"
    /\ LET partner == PartnerOf(r, step[r])
       IN  /\ chan[<<partner, r>>] # <<>>
           /\ recvbuf' = [recvbuf EXCEPT ![r] = Head(chan[<<partner, r>>])]
           /\ chan' = [chan EXCEPT ![<<partner, r>>] = Tail(@)]
    /\ mpc' = [mpc EXCEPT ![r] = "merge"]
    /\ UNCHANGED <<block, stage, step, tempbuf, rounds>>
    /\ MpiIdle

\* lines 234-272 and 294: MPI_Wait(&send_req), the merge, the split, and the
\* step of the inner loop (the outer loop's when the inner one ends)
MpiMergeSplit(r) ==
    /\ prog = "mpi" /\ r \in Ranks
    /\ mpc[r] = "merge"
    /\ LET partner == PartnerOf(r, step[r])
           m == merged_arr(tempbuf[r], recvbuf[r], lsize)
       IN  block' = [block EXCEPT ![r] =
                         split(m, lsize, r, partner, RoundAscending(r, stage[r]))]
    /\ step' = [step EXCEPT ![r] =
                    IF step[r] \div 2 > 0 THEN step[r] \div 2 ELSE stage[r] * 2]
    /\ stage' = [stage EXCEPT ![r] =
                    IF step[r] \div 2 > 0 THEN stage[r] ELSE stage[r] * 2]
    /\ rounds' = [rounds EXCEPT ![r] = @ + 1]
    /\ mpc' = [mpc EXCEPT ![r] = "loop"]
    /\ UNCHANGED <<chan, recvbuf, tempbuf>>
    /\ MpiIdle

MpiDone == prog = "mpi" /\ \A r \in Ranks : mpc[r] = "done"

MpiNext ==
    \/ \E r \in Ranks : MpiLocalSort(r)
    \/ \E r \in Ranks : MpiExchange(r)
    \/ \E r \in Ranks : MpiWaitRecv(r)
    \/ \E r \in Ranks : MpiMergeSplit(r)

\* the distributed executor
MpiSpec == MpiInit /\ [][MpiNext]_vars

(***************************************************************************)
(* The whole run of main (mpi_bitonic.c lines 385-464): the allocations,   *)
(* the scatter, the two barriers around the sort, the gather.  A           *)
(* collective call returns on a rank only when the ranks it depends on     *)
(* have entered it; a rank that has returned from main enters none.        *)
(***************************************************************************)
MpiRunInit ==
    /\ prog = "mpi"
    /\ world \in MpiWorlds
    /\ input \in MpiInputs(world)
    /\ lsize = Len0(input) \div world
    /\ block = [r \in Ranks |-> <<>>]
    /\ mpc = [r \in Ranks |-> "alloc"]
    /\ stage = [r \in Ranks |-> 1]
    /\ step = [r \in Ranks |-> 1]
    /\ chan = [e \in Ranks \X Ranks |-> <<>>]
    /\ recvbuf = [r \in Ranks |-> <<>>]
    /\ tempbuf = [r \in Ranks |-> <<>>]
    /\ rounds = [r \in Ranks |-> 0]
    /\ arr = <<>>
    /\ direction = 1
    /\ stack = <<>>
    /\ frames = <<>>
    /\ inflight = {}
    /\ nthreads = 1
    /\ unit = 1
    /\ returned = {}
    /\ FileOff
    /\ MainOff

\* lines 386-403: malloc of local_arr, and on rank 0 of global_arr; on
\* failure the rank prints, calls MPI_Finalize and returns 1, alone
MpiAllocate(r) ==
    /\ prog = "mpi" /\ r \in Ranks
    /\ mpc[r] = "alloc"
    /\ \/ mpc' = [mpc EXCEPT ![r] = "scatter"]
       \/ mpc' = [mpc EXCEPT ![r] = "exited"]
    /\ UNCHANGED <<block, stage, step, chan, recvbuf, tempbuf, rounds>>
    /\ MpiIdle

\* lines 414-419: MPI_Scatter returns on the root, and on another rank once
\* the root has entered it; the rank enters MPI_Barrier
MpiScatter(r) ==
    /\ prog = "mpi" /\ r \in Ranks
    /\ mpc[r] = "scatter"
    /\ r = 0 \/ mpc[0] \notin {"alloc", "exited"}
    /\ block' = [block EXCEPT ![r] = Scattered(input, world, r)]
    /\ mpc' = [mpc EXCEPT ![r] = "barrier"]
    /\ UNCHANGED <<stage, step, chan, recvbuf, tempbuf, rounds>>
    /\ MpiIdle

\* lines 419-423: MPI_Barrier returns when every rank has entered it
MpiBarrier ==
    /\ prog = "mpi"
    /\ \A r \in Ranks : mpc[r] = "barrier"
    /\ mpc' = [r \in Ranks |-> "local_sort"]
    /\ UNCHANGED <<block, stage, step, chan, recvbuf, tempbuf, rounds>>
    /\ MpiIdle

\* lines 210-218: a malloc of optimized_merge_split fails; MPI_Abort ends
\* every rank of the communicator
MpiSplitAllocFail(r) ==
    /\ prog = "mpi" /\ r \in Ranks
    /\ mpc[r] = "loop"
    /\ stage[r] < world
    /\ PartnerOf(r, step[r]) < world
    /\ mpc' = [q \in Ranks |-> "aborted"]
    /\ UNCHANGED <<block, stage, step, chan, recvbuf, tempbuf, rounds>>
    /\ MpiIdle

\* lines 426-464: the second MPI_Barrier and MPI_Gather return when every
\* rank has left the sort; the ranks finalize and return 0
MpiGatherFinalize ==
    /\ prog = "mpi"
    /\ \A r \in Ranks : mpc[r] = "done"
    /\ arr' = Gathered
    /\ mpc' = [r \in Ranks |-> "finished"]
    /\ UNCHANGED <<prog, input, direction, stack, frames, inflight, nthreads, unit,
                   returned, world, lsize, block, stage, step, chan, recvbuf,
                   tempbuf, rounds, FileVars, MainVars>>

MpiRunNext ==
    \/ \E r \in Ranks : MpiAllocate(r)
    \/ \E r \in Ranks : MpiScatter(r)
    \/ MpiBarrier
    \/ \E r \in Ranks : MpiLocalSort(r)
    \/ \E r \in Ranks : MpiExchange(r)
    \/ \E r \in Ranks : MpiSplitAllocFail(r)
    \/ \E r \in Ranks : MpiWaitRecv(r)
    \/ \E r \in Ranks : MpiMergeSplit(r)
    \/ MpiGatherFinalize

\* a step of rank r that its own code takes when it can
MpiRankStep(r) ==
    \/ MpiAllocate(r)
    \/ MpiScatter(r)
    \/ MpiLocalSort(r)
    \/ MpiExchange(r)
    \/ MpiWaitRecv(r)
    \/ MpiMergeSplit(r)

MpiRunSpec == MpiRunInit /\ [][MpiRunNext]_vars

\* the run under a scheduler that lets every process run and every
\* collective complete once all its participants are in it
MpiRunFairSpec ==
    /\ MpiRunSpec
    /\ \A r \in 0 .. 3 : WF_vars(MpiRankStep(r))
    /\ WF_vars(MpiBarrier)
    /\ WF_vars(MpiGatherFinalize)

\* the distributed executor under a scheduler that lets every process run:
\* a rank that can take its next step takes it
MpiFairSpec ==
    /\ MpiSpec
    /\ \A r \in 0 .. 3 : WF_vars(MpiRankStep(r))

(***************************************************************************)
(* File-based shared-memory program (OpenMP/bitonic_openmp.c)              *)
(*                                                                         *)
(* The input file is the array of ints read_input returns; the output file *)
(* is the array of ints write_output prints.                               *)
(***************************************************************************)
INT_MAX == 2147483647

INT_MIN == 0 - INT_MAX - 1

\* p << 1 of a 32-bit int p, where a result no int holds wraps around
shift_left_one(p) ==
    IF p > INT_MAX \div 2 THEN 2 * (p - INT_MAX \div 2 - 1) + INT_MIN
    ELSE IF p < INT_MIN \div 2 THEN 2 * (p - INT_MIN)
    ELSE 2 * p

RECURSIVE pow2_from(_, _)
\* the while loop of next_power_of_two, entered with p
pow2_from(p, n) == IF p < n THEN pow2_from(shift_left_one(p), n) ELSE p

next_power_of_two(n) == pow2_from(1, n)

pad_with_zero(values, count, padded) ==
    [i \in 0 .. padded - 1 |-> IF i < count THEN values[i] ELSE 0]

\* lines 132-146: values after realloc and the padding loop
pad(values, count, padded) ==
    [i \in 0 .. padded - 1 |-> IF i < count THEN values[i] ELSE INT_MAX]

iteration_one_direction(data, i, k, j) ==
    IF BitXor(i, j) > i /\ CBool(data[i] > data[BitXor(i, j)]) = 1
    THEN [data EXCEPT ![i] = data[BitXor(i, j)], ![BitXor(i, j)] = data[i]]
    ELSE data

iteration_unguarded(data, i, k, j) ==
    IF CBool(data[i] > data[BitXor(i, j)]) = CBool(BitAnd(i, k) = 0)
    THEN [data EXCEPT ![i] = data[BitXor(i, j)], ![BitXor(i, j)] = data[i]]
    ELSE data

\* lines 100-110: the body of the loop over i
iteration(data, i, k, j) ==
    IF BitXor(i, j) > i
       /\ CBool(data[i] > data[BitXor(i, j)]) = CBool(BitAnd(i, k) = 0)
    THEN [data EXCEPT ![i] = data[BitXor(i, j)], ![BitXor(i, j)] = data[i]]
    ELSE data

\* lines 83-86: the first count values of data
write_output(data, count) == [i \in 0 .. count - 1 |-> data[i]]

\* lines 93-113 run by one thread: the passes (k, j) in order, and in every
\* pass the iterations i = 0 .. n - 1 in order
bitonic_sort_file(data, n) ==
    LET run[k \in 1 .. 2 * n, j \in 0 .. n, i \in 0 .. n, d \in [DOMAIN data -> Int]] ==
            IF k > n THEN d
            ELSE IF j = 0 THEN run[2 * k, k, 0, d]
            ELSE IF i < n THEN run[k, j, i + 1, iteration(d, i, k, j)]
            ELSE run[k, j \div 2, 0, d]
    IN  run[2, 1, 0, data]

\* lines 102-110: the slots of data the iteration i of a pass with stride j
\* reads or writes
iteration_slots(i, j) == IF BitXor(i, j) > i THEN {i, BitXor(i, j)} ELSE {}

\* lines 93-113 run by one thread up to the start of the pass (pk, pj)
before_pass(data, n, pk, pj) ==
    LET run[k \in 1 .. 2 * n, j \in 0 .. n, i \in 0 .. n, d \in [DOMAIN data -> Int]] ==
            IF k > n \/ (k = pk /\ j = pj) THEN d
            ELSE IF j = 0 THEN run[2 * k, k, 0, d]
            ELSE IF i < n THEN run[k, j, i + 1, iteration(d, i, k, j)]
            ELSE run[k, j \div 2, 0, d]
    IN  run[2, 1, 0, data]

\* lines 124-157 with one thread: what main writes for the input values
openmp_output(values) ==
    write_output(
        bitonic_sort_file(pad(values, Len0(values), next_power_of_two(Len0(values))),
                          next_power_of_two(Len0(values))),
        Len0(values))

\* input files: every array over FileVals up to length FileFull, and up to
\* length MaxFileLen the arrays over {0, INT_MAX} and the scenario
FileFull == 3
MaxFileLen == 5
FileVals == Vals \cup {INT_MAX}
Scenario5 == [i \in 0 .. 4 |-> <<4, 1, 3, 2, 5>>[i + 1]]
Sorted5 == [i \in 0 .. 4 |-> i + 1]

FileInputsOfLength(n) ==
    IF n <= FileFull THEN [0 .. n - 1 -> FileVals] ELSE [0 .. n - 1 -> {0, INT_MAX}]

FileInputs ==
    UNION {FileInputsOfLength(n) : n \in 1 .. MaxFileLen} \cup {Scenario5}

Threads == 0 .. nthreads - 1

\* schedule(static): contiguous chunks of the iterations, one per thread
ChunkSize(n) == (n + nthreads - 1) \div nthreads
ChunkStart(t, n) == IF t * ChunkSize(n) < n THEN t * ChunkSize(n) ELSE n
ChunkEnd(t, n) == IF (t + 1) * ChunkSize(n) < n THEN (t + 1) * ChunkSize(n) ELSE n

FompInit ==
    /\ prog = "fomp"
    /\ input \in FileInputs
    /\ nthreads \in {1, 2, 4}
    /\ arr = input
    /\ fpc = "pad"
    /\ passk = 0
    /\ passj = 0
    /\ cursor = <<>>
    /\ merge_width = 0
    /\ output = <<>>
    /\ direction = 1
    /\ stack = <<>>
    /\ frames = <<>>
    /\ inflight = {}
    /\ unit = 1
    /\ returned = {}
    /\ MpiOff
    /\ MainOff

FompIdle ==
    UNCHANGED <<prog, input, direction, stack, frames, inflight, nthreads, unit,
                returned, MpiVars, merge_width, MainVars>>

\* lines 131-146: the padding; bitonic_sort is entered
FompPad ==
    /\ prog = "fomp" /\ fpc = "pad"
    /\ arr' = pad(arr, Len0(input), next_power_of_two(Len0(input)))
    /\ passk' = 2
    /\ passj' = 1
    /\ fpc' = "loop"
    /\ UNCHANGED <<cursor, output>>
    /\ FompIdle

\* lines 93-97: the loop tests; a team is forked for the pass (k, j), or the
\* sort returns
FompFork ==
    /\ prog = "fomp" /\ fpc = "loop"
    /\ \/ /\ passk <= Len0(arr)
          /\ cursor' = [t \in Threads |-> ChunkStart(t, Len0(arr))]
          /\ fpc' = "team"
       \/ /\ ~(passk <= Len0(arr))
          /\ fpc' = "write"
          /\ UNCHANGED cursor
    /\ UNCHANGED <<arr, passk, passj, output>>
    /\ FompIdle

\* lines 98-111: thread t runs the next iteration of its chunk
FompIter(t) ==
    /\ prog = "fomp" /\ fpc = "team"
    /\ t \in Threads
    /\ cursor[t] < ChunkEnd(t, Len0(arr))
    /\ arr' = iteration(arr, cursor[t], passk, passj)
    /\ cursor' = [cursor EXCEPT ![t] = @ + 1]
    /\ UNCHANGED <<fpc, passk, passj, output>>
    /\ FompIdle

\* the barrier that ends the parallel for; lines 93 and 95: the loop steps
FompJoin ==
    /\ prog = "fomp" /\ fpc = "team"
    /\ \A t \in Threads : cursor[t] = ChunkEnd(t, Len0(arr))
    /\ passj' = IF passj \div 2 > 0 THEN passj \div 2 ELSE passk
    /\ passk' = IF passj \div 2 > 0 THEN passk ELSE 2 * passk
    /\ cursor' = <<>>
    /\ fpc' = "loop"
    /\ UNCHANGED <<arr, output>>
    /\ FompIdle

\* line 157
FompWrite ==
    /\ prog = "fomp" /\ fpc = "write"
    /\ output' = write_output(arr, Len0(input))
    /\ fpc' = "done"
    /\ UNCHANGED <<arr, passk, passj, cursor>>
    /\ FompIdle

FompDone == prog = "fomp" /\ fpc = "done"

FompNext ==
    \/ FompPad
    \/ FompFork
    \/ \E t \in Threads : FompIter(t)
    \/ FompJoin
    \/ FompWrite

\* the file-based shared-memory program
FompSpec == FompInit /\ [][FompNext]_vars

(***************************************************************************)
(* File-based distributed programs (part_004)                              *)
(*                                                                         *)
(* Both programs read, pad and scatter the input in the same way (lines    *)
(* 186-226 and 492-532) and write the first original_count gathered values *)
(* (lines 252 and 623).                                                    *)
(***************************************************************************)
RECURSIVE grow_to_multiple(_, _)
\* lines 195-198: the while loop, entered with padded_count = p
grow_to_multiple(p, np) ==
    IF p % np # 0 THEN grow_to_multiple(2 * p, np) ELSE p

RECURSIVE padding_overflows(_, _)
\* lines 195-198: the loop, entered with padded_count = p, reaches a shift
\* whose result no int holds before it finds a multiple of np
padding_overflows(p, np) ==
    IF p % np # 0
    THEN IF p > INT_MAX \div 2 THEN TRUE ELSE padding_overflows(2 * p, np)
    ELSE FALSE

padded_count_not_grown(original_count, np) == next_power_of_two(original_count)

\* lines 194-198
padded_count(original_count, np) ==
    grow_to_multiple(next_power_of_two(original_count), np)

\* line 231: qsort with int_compare leaves the block ascending; position x
\* holds the value with at most x smaller and more than x not larger values
qsort(a) ==
    [x \in DOMAIN a |->
        CHOOSE v \in Range(a) :
            /\ Cardinality({y \in DOMAIN a : a[y] < v}) <= x
            /\ x < Cardinality({y \in DOMAIN a : a[y] <= v})]

\* lines 116-129: the half of merged copied back into local
keep(merged, local_n, rank, partner, ascending) ==
    IF ascending # 0
    THEN [x \in 0 .. local_n - 1 |-> merged[x]]
    ELSE [x \in 0 .. local_n - 1 |-> merged[local_n + x]]

\* world sizes of the first program
Mp1Worlds == {1, 2, 4}

\* up to this world size every input file is run; larger worlds run the
\* scenario
MaxFullWorld == 4

MpFileInputs(np) == IF np <= MaxFullWorld THEN FileInputs ELSE {Scenario5}

MpFileInit(name, worlds) ==
    /\ prog = name
    /\ world \in worlds
    /\ input \in MpFileInputs(world)
    /\ arr = input
    /\ fpc = "read"
    /\ lsize = 0
    /\ block = [r \in Ranks |-> <<>>]
    /\ mpc = [r \in Ranks |-> "start"]
    /\ stage = [r \in Ranks |-> 0]
    /\ step = [r \in Ranks |-> 0]
    /\ chan = [e \in Ranks \X Ranks |-> <<>>]
    /\ recvbuf = [r \in Ranks |-> <<>>]
    /\ tempbuf = [r \in Ranks |-> <<>>]
    /\ rounds = [r \in Ranks |-> 0]
    /\ passk = 0
    /\ passj = 0
    /\ cursor = <<>>
    /\ merge_width = 0
    /\ output = <<>>
    /\ direction = 1
    /\ stack = <<>>
    /\ frames = <<>>
    /\ inflight = {}
    /\ nthreads = 1
    /\ unit = 1
    /\ returned = {}
    /\ MainOff

\* the first program started on world ranks
Mp1Init == MpFileInit("fmpi1", Mp1Worlds)

MpFileIdle ==
    UNCHANGED <<prog, input, direction, stack, frames, inflight, nthreads, unit,
                returned, world, tempbuf, passk, passj, cursor, MainVars>>

\* lines 186-226: rank 0 reads and pads, the counts are broadcast and the
\* padded array is scattered
Mp1Scatter ==
    /\ prog = "fmpi1" /\ fpc = "read"
    /\ ~padding_overflows(next_power_of_two(Len0(input)), world)
    /\ arr' = pad(arr, Len0(input), padded_count(Len0(input), world))
    /\ lsize' = padded_count(Len0(input), world) \div world
    /\ block' = [r \in Ranks |-> Scattered(arr', world, r)]
    /\ mpc' = [r \in Ranks |-> "qsort"]
    /\ fpc' = "run"
    /\ UNCHANGED <<stage, step, chan, recvbuf, rounds, merge_width, output>>
    /\ MpFileIdle

\* line 231, and distributed_bitonic is entered (lines 137 and 139)
Mp1Qsort(r) ==
    /\ prog = "fmpi1" /\ r \in Ranks
    /\ fpc = "run" /\ mpc[r] = "qsort"
    /\ block' = [block EXCEPT ![r] = qsort(block[r])]
    /\ stage' = [stage EXCEPT ![r] = 2]
    /\ step' = [step EXCEPT ![r] = 1]
    /\ mpc' = [mpc EXCEPT ![r] = "loop"]
    /\ UNCHANGED <<arr, fpc, lsize, chan, recvbuf, rounds, merge_width, output>>
    /\ MpFileIdle

\* lines 137-143 and 95: the loop test; the rank enters MPI_Sendrecv and its
\* block is on the way to the partner, or the rank leaves distributed_bitonic
Mp1Sendrecv(r) ==
    /\ prog = "fmpi1" /\ r \in Ranks
    /\ fpc = "run" /\ mpc[r] = "loop"
    /\ \/ /\ stage[r] <= world
          /\ BitXor(r, step[r]) \in Ranks
          /\ chan' = [chan EXCEPT ![<<r, BitXor(r, step[r])>>] = Append(@, block[r])]
          /\ mpc' = [mpc EXCEPT ![r] = "sendrecv"]
       \/ /\ ~(stage[r] <= world)
          /\ mpc' = [mpc EXCEPT ![r] = "gather"]
          /\ UNCHANGED chan
    /\ UNCHANGED <<arr, fpc, lsize, block, stage, step, recvbuf, rounds, merge_width, output>>
    /\ MpFileIdle

\* lines 95-129, 139 and 137: MPI_Sendrecv returns with the partner's block,
\* the two blocks are merged, a half is kept, and the loops step
Mp1Merge(r) ==
    /\ prog = "fmpi1" /\ r \in Ranks
    /\ fpc = "run" /\ mpc[r] = "sendrecv"
    /\ LET partner == BitXor(r, step[r])
       IN  /\ chan[<<partner, r>>] # <<>>
           /\ recvbuf' = [recvbuf EXCEPT ![r] = Head(chan[<<partner, r>>])]
           /\ chan' = [chan EXCEPT ![<<partner, r>>] = Tail(@)]
           /\ block' = [block EXCEPT ![r] =
                  keep(merged_arr(block[r], Head(chan[<<partner, r>>]), lsize),
                       lsize, r, partner, CBool(BitAnd(r, stage[r]) = 0))]
    /\ step' = [step EXCEPT ![r] =
                    IF step[r] \div 2 > 0 THEN step[r] \div 2 ELSE stage[r]]
    /\ stage' = [stage EXCEPT ![r] =
                    IF step[r] \div 2 > 0 THEN stage[r] ELSE 2 * stage[r]]
    /\ rounds' = [rounds EXCEPT ![r] = @ + 1]
    /\ mpc' = [mpc EXCEPT ![r] = "loop"]
    /\ UNCHANGED <<arr, fpc, lsize, merge_width, output>>
    /\ MpFileIdle

\* lines 234-252: every rank has reached the gather; rank 0 writes the first
\* original_count gathered values
Mp1GatherWrite ==
    /\ prog = "fmpi1" /\ fpc = "run"
    /\ \A r \in Ranks : mpc[r] = "gather"
    /\ arr' = Gathered
    /\ output' = write_output(Gathered, Len0(input))
    /\ mpc' = [r \in Ranks |-> "done"]
    /\ fpc' = "done"
    /\ UNCHANGED <<lsize, block, stage, step, chan, recvbuf, rounds, merge_width>>
    /\ MpFileIdle

Mp1Done == prog = "fmpi1" /\ fpc = "done"

Mp1Next ==
    \/ Mp1Scatter
    \/ \E r \in Ranks : Mp1Qsort(r)
    \/ \E r \in Ranks : Mp1Sendrecv(r)
    \/ \E r \in Ranks : Mp1Merge(r)
    \/ Mp1GatherWrite

\* the first file-based distributed program
Mp1Spec == Mp1Init /\ [][Mp1Next]_vars

\* lines 195-226 when no power of two is a multiple of world_size: the shift
\* of line 197 overflows int, which is undefined.  The loop goes on for
\* ever; or padded_count wraps to 0 after two more shifts and realloc of 0
\* bytes returns NULL (lines 202-207: the message and MPI_Abort); or realloc
\* returns a block and the program goes on with padded_count = 0, local_n = 0
Mp1PadOverflow ==
    /\ prog = "fmpi1" /\ fpc = "read"
    /\ padding_overflows(next_power_of_two(Len0(input)), world)
    /\ \/ /\ fpc' = "hang"
          /\ UNCHANGED <<arr, lsize, block, mpc>>
       \/ /\ fpc' = "aborted"
          /\ mpc' = [r \in Ranks |-> "aborted"]
          /\ UNCHANGED <<arr, lsize, block>>
       \/ /\ fpc' = "run"
          /\ arr' = pad(arr, Len0(input), 0)
          /\ lsize' = 0
          /\ block' = [r \in Ranks |-> Scattered(arr', world, r)]
          /\ mpc' = [r \in Ranks |-> "qsort"]
    /\ UNCHANGED <<stage, step, chan, recvbuf, rounds, merge_width, output>>
    /\ MpFileIdle

\* lines 141 and 95: the partner rank ^ j is not a rank of the communicator;
\* MPI_Sendrecv fails and the default error handler aborts the job
Mp1InvalidPartner(r) ==
    /\ prog = "fmpi1" /\ r \in Ranks
    /\ fpc = "run" /\ mpc[r] = "loop"
    /\ stage[r] <= world
    /\ BitXor(r, step[r]) \notin Ranks
    /\ fpc' = "aborted"
    /\ mpc' = [q \in Ranks |-> "aborted"]
    /\ UNCHANGED <<arr, lsize, block, stage, step, chan, recvbuf, rounds,
                   merge_width, output>>
    /\ MpFileIdle

\* world sizes with and without a power of two
Mp1AnyWorlds == {2, 3}

Mp1AnyInit == MpFileInit("fmpi1", Mp1AnyWorlds)

Mp1AnyNext ==
    \/ Mp1Scatter
    \/ Mp1PadOverflow
    \/ \E r \in Ranks : Mp1Qsort(r)
    \/ \E r \in Ranks : Mp1Sendrecv(r)
    \/ \E r \in Ranks : Mp1InvalidPartner(r)
    \/ \E r \in Ranks : Mp1Merge(r)
    \/ Mp1GatherWrite

\* the first file-based distributed program on any number of ranks
Mp1AnySpec == Mp1AnyInit /\ [][Mp1AnyNext]_vars

\* world sizes of the second program (run_mpi.sh: for p in 1 2 4 8 16)
Mp2Worlds == {1, 2, 4, 8, 16}

compare_and_swap_ascending_only(data, a, b, dir) ==
    IF data[a] > data[b]
    THEN [data EXCEPT ![a] = data[b], ![b] = data[a]]
    ELSE data

\* lines 352-360: compare_and_swap(&data[a], &data[b], dir) of the second
\* program
compare_and_swap_p2(data, a, b, dir) ==
    IF (dir = 1 /\ data[a] > data[b]) \/ (dir = 0 /\ data[a] < data[b])
    THEN [data EXCEPT ![a] = data[b], ![b] = data[a]]
    ELSE data

RECURSIVE bitonic_merge_p2(_, _, _)
\* lines 363-375: the calls <<i, i + mid, dir>> of compare_and_swap that
\* bitonic_merge(data, start, size, dir) makes, in order
bitonic_merge_p2(start, size, dir) ==
    IF size > 1
    THEN [n \in 1 .. size \div 2 |->
              <<start + n - 1, start + n - 1 + size \div 2, dir>>]
         \o bitonic_merge_p2(start, size \div 2, dir)
         \o bitonic_merge_p2(start + size \div 2, size \div 2, dir)
    ELSE <<>>

RECURSIVE bitonic_sort_recursive_p2(_, _, _)
\* lines 378-390: the calls bitonic_sort_recursive(data, start, size, dir)
\* makes, in order
bitonic_sort_recursive_p2(start, size, dir) ==
    IF size > 1
    THEN bitonic_sort_recursive_p2(start, size \div 2, 1)
         \o bitonic_sort_recursive_p2(start + size \div 2, size \div 2, 0)
         \o bitonic_merge_p2(start, size, dir)
    ELSE <<>>

\* line 538: local_data after bitonic_sort_recursive(local_data, 0, local_n, 1)
local_sort_p2(data, local_n) ==
    LET calls == bitonic_sort_recursive_p2(0, local_n, 1)
        run[m \in 0 .. Len(calls), d \in [DOMAIN data -> Int]] ==
            IF m = Len(calls) THEN d
            ELSE run[m + 1, compare_and_swap_p2(d, calls[m + 1][1], calls[m + 1][2],
                                                calls[m + 1][3])]
    IN  run[0, data]

\* lines 571-595: one round of pairwise merges of runs of merge_width values;
\* res is next[0 .. res_idx - 1], run is 0 before the loop over base makes
\* the merge of the pair at base and 1 while it makes it
merge_round(current, padded, width) ==
    LET left_end(base) == IF base + width > padded THEN padded ELSE base + width
        right_end(base) ==
            IF base + 2 * width < padded THEN base + 2 * width ELSE padded
        run[base \in 0 .. padded + 2 * width, l \in 0 .. padded, r \in 0 .. padded,
            res \in Seq(Int)] ==
            IF ~(base < padded) THEN res
            ELSE IF l < left_end(base) /\ r < right_end(base)
                 THEN IF current[l] <= current[r]
                      THEN run[base, l + 1, r, Append(res, current[l])]
                      ELSE run[base, l, r + 1, Append(res, current[r])]
            ELSE IF l < left_end(base)
                 THEN run[base, l + 1, r, Append(res, current[l])]
            ELSE IF r < right_end(base)
                 THEN run[base, l, r + 1, Append(res, current[r])]
            ELSE IF base + 2 * width < padded
                 THEN run[base + 2 * width, base + 2 * width,
                          left_end(base + 2 * width), res]
            ELSE run[base + 2 * width, 0, 0, res]
    IN  [x \in 0 .. padded - 1 |-> run[0, 0, left_end(0), <<>>][x + 1]]

\* the second program started on world ranks
Mp2Init == MpFileInit("fmpi2", Mp2Worlds)

\* lines 492-532: rank 0 reads and pads, the counts are broadcast and the
\* padded array is scattered
Mp2Scatter ==
    /\ prog = "fmpi2" /\ fpc = "read"
    /\ arr' = pad(arr, Len0(input), padded_count(Len0(input), world))
    /\ lsize' = padded_count(Len0(input), world) \div world
    /\ block' = [r \in Ranks |-> Scattered(arr', world, r)]
    /\ mpc' = [r \in Ranks |-> "sort"]
    /\ fpc' = "run"
    /\ UNCHANGED <<stage, step, chan, recvbuf, rounds, merge_width, output>>
    /\ MpFileIdle

\* line 538: the rank sorts its block and enters MPI_Gather
Mp2LocalSort(r) ==
    /\ prog = "fmpi2" /\ r \in Ranks
    /\ mpc[r] = "sort"
    /\ block' = [block EXCEPT ![r] = local_sort_p2(block[r], lsize)]
    /\ mpc' = [mpc EXCEPT ![r] = "gather"]
    /\ UNCHANGED <<arr, fpc, lsize, stage, step, chan, recvbuf, rounds, merge_width,
                   output>>
    /\ MpFileIdle

\* lines 553-569: the gather completes at rank 0, which enters the merge loop
Mp2Gather ==
    /\ prog = "fmpi2" /\ fpc = "run"
    /\ \A r \in Ranks : mpc[r] = "gather"
    /\ arr' = Gathered
    /\ merge_width' = lsize
    /\ mpc' = [r \in Ranks |-> "barrier"]
    /\ fpc' = "merge"
    /\ UNCHANGED <<lsize, block, stage, step, chan, recvbuf, rounds, output>>
    /\ MpFileIdle

\* lines 569-607: one round of the merge loop, or its end
Mp2MergeRound ==
    /\ prog = "fmpi2" /\ fpc = "merge"
    /\ \/ /\ merge_width < Len0(arr)
          /\ arr' = merge_round(arr, Len0(arr), merge_width)
          /\ merge_width' = 2 * merge_width
          /\ UNCHANGED fpc
       \/ /\ ~(merge_width < Len0(arr))
          /\ fpc' = "write"
          /\ UNCHANGED <<arr, merge_width>>
    /\ UNCHANGED <<lsize, block, mpc, stage, step, chan, recvbuf, rounds, output>>
    /\ MpFileIdle

\* lines 612-623
Mp2Write ==
    /\ prog = "fmpi2" /\ fpc = "write"
    /\ output' = write_output(arr, Len0(input))
    /\ mpc' = [r \in Ranks |-> "done"]
    /\ fpc' = "done"
    /\ UNCHANGED <<arr, lsize, block, stage, step, chan, recvbuf, rounds, merge_width>>
    /\ MpFileIdle

Mp2Done == prog = "fmpi2" /\ fpc = "done"

Mp2Next ==
    \/ Mp2Scatter
    \/ \E r \in Ranks : Mp2LocalSort(r)
    \/ Mp2Gather
    \/ Mp2MergeRound
    \/ Mp2Write

\* the demo: the file-based shared-memory program or the second file-based
\* distributed program, run on an input file
DemoInit == FompInit \/ Mp2Init

DemoNext == FompNext \/ Mp2Next

DemoSpec == DemoInit /\ [][DemoNext]_vars

(***************************************************************************)
(* The mains of the size-argument programs (part_005, openmp_bitonic.c,    *)
(* mpi_bitonic.c) up to the first allocation                               *)
(*                                                                         *)
(* Every process is a rank of `world' (1 for the serial and the            *)
(* shared-memory program); mpc is where its main is.                       *)
(***************************************************************************)
ArgChars == {"-", "0", "1", "2", "3", "4", "8", "x"}
MaxArgLen == 2
Args == UNION {[1 .. n -> ArgChars] : n \in 1 .. MaxArgLen}

Digits == {"0", "1", "2", "3", "4", "8"}

DigitValue(c) ==
    CASE c = "0" -> 0 [] c = "1" -> 1 [] c = "2" -> 2 [] c = "3" -> 3
      [] c = "4" -> 4 [] c = "8" -> 8

RECURSIVE atoi_digits(_, _, _)
\* the digits of s from position i on, up to the first character that is not
\* a digit, read in base 10 after acc
atoi_digits(s, i, acc) ==
    IF i <= Len(s) /\ s[i] \in Digits
    THEN atoi_digits(s, i + 1, 10 * acc + DigitValue(s[i]))
    ELSE acc

\* atoi: an optional sign, then the leading digits; 0 when there are none
atoi(s) ==
    IF s # <<>> /\ s[1] = "-" THEN 0 - atoi_digits(s, 2, 0) ELSE atoi_digits(s, 1, 0)

size_rejected_below_zero(size) == size < 0 \/ BitAnd(size, size - 1) # 0

\* part_005 line 199 and openmp_bitonic.c line 311
size_rejected(size) == size <= 0 \/ BitAnd(size, size - 1) # 0

\* mpi_bitonic.c lines 357-358
mpi_args_rejected(total_size, num_procs) ==
    \/ total_size <= 0
    \/ BitAnd(total_size, total_size - 1) # 0
    \/ BitAnd(num_procs, num_procs - 1) # 0
    \/ total_size % num_procs # 0

MainWorlds == {1, 2, 3, 4}

MainInit ==
    /\ prog \in {"serial_main", "openmp_main", "mpi_main"}
    /\ world \in (IF prog = "mpi_main" THEN MainWorlds ELSE {1})
    /\ argv1 \in Args
    /\ reported = FALSE
    /\ mpc = [r \in Ranks |-> "parse"]
    /\ lsize = 0
    /\ block = [r \in Ranks |-> <<>>]
    /\ stage = [r \in Ranks |-> 0]
    /\ step = [r \in Ranks |-> 0]
    /\ chan = <<>>
    /\ recvbuf = [r \in Ranks |-> <<>>]
    /\ tempbuf = [r \in Ranks |-> <<>>]
    /\ rounds = [r \in Ranks |-> 0]
    /\ arr = <<>>
    /\ input = <<>>
    /\ direction = 1
    /\ stack = <<>>
    /\ frames = <<>>
    /\ inflight = {}
    /\ nthreads = 1
    /\ unit = 1
    /\ returned = {}
    /\ FileOff

MainIdle ==
    UNCHANGED <<NetVars, world, block, stage, step, chan, recvbuf, tempbuf, rounds,
                FileVars, argv1>>

\* part_005 lines 196-209: size is parsed and validated; the program
\* returns 1 after the message, or goes on to malloc
SerialMainValidate ==
    /\ prog = "serial_main" /\ mpc[0] = "parse"
    /\ \/ /\ size_rejected(atoi(argv1))
          /\ reported' = TRUE
          /\ mpc' = [mpc EXCEPT ![0] = "exit_error"]
          /\ UNCHANGED lsize
       \/ /\ ~size_rejected(atoi(argv1))
          /\ lsize' = atoi(argv1)
          /\ mpc' = [mpc EXCEPT ![0] = "allocate"]
          /\ UNCHANGED reported
    /\ MainIdle

\* openmp_bitonic.c lines 308-324
OmpMainValidate ==
    /\ prog = "openmp_main" /\ mpc[0] = "parse"
    /\ \/ /\ size_rejected(atoi(argv1))
          /\ reported' = TRUE
          /\ mpc' = [mpc EXCEPT ![0] = "exit_error"]
          /\ UNCHANGED lsize
       \/ /\ ~size_rejected(atoi(argv1))
          /\ lsize' = atoi(argv1)
          /\ mpc' = [mpc EXCEPT ![0] = "allocate"]
          /\ UNCHANGED reported
    /\ MainIdle

\* mpi_bitonic.c lines 353-386: rank r parses and validates; it calls
\* MPI_Finalize and returns 1 (rank 0 after the message), or goes on to malloc
MpiMainValidate(r) ==
    /\ prog = "mpi_main" /\ r \in Ranks
    /\ mpc[r] = "parse"
    /\ \/ /\ mpi_args_rejected(atoi(argv1), world)
          /\ reported' = (reported \/ r = 0)
          /\ mpc' = [mpc EXCEPT ![r] = "exit_error"]
          /\ UNCHANGED lsize
       \/ /\ ~mpi_args_rejected(atoi(argv1), world)
          /\ lsize' = atoi(argv1) \div world
          /\ mpc' = [mpc EXCEPT ![r] = "allocate"]
          /\ UNCHANGED reported
    /\ MainIdle

MainNext ==
    \/ SerialMainValidate
    \/ OmpMainValidate
    \/ \E r \in Ranks : MpiMainValidate(r)

\* the mains of the size-argument programs
MainSpec == MainInit /\ [][MainNext]_vars

SerialNext ==
    \/ SerialSort
    \/ SerialMerge
    \/ SerialLoop

OmpNext ==
    \/ \E p \in Paths : OmpSortCall(p)
    \/ \E p \in Paths : OmpSortSecond(p)
    \/ \E p \in Paths : OmpSortMerge(p)
    \/ \E p \in Paths : OmpSortReturn(p)
    \/ \E p \in Paths : OmpMergeCall(p)
    \/ \E p \in Paths : \E i \in frames[p].todo : OmpCompare(p, i)
    \/ \E x \in inflight : OmpSwap(x)
    \/ \E p \in Paths : OmpMergeRecurse(p)
    \/ \E p \in Paths : OmpMergeSecond(p)
    \/ \E p \in Paths : OmpMergeReturn(p)

\* the serial program
SerialSpec == SerialInit /\ [][SerialNext]_vars

\* the shared-memory executor
OmpSpec == OmpInit /\ [][OmpNext]_vars

\* either of the two
Init == SerialInit \/ OmpInit

Next == SerialNext \/ OmpNext

Spec == Init /\ [][Next]_vars

(***************************************************************************)
(* The two networks started on arrays that are already ascending           *)
(***************************************************************************)
\* values of the ascending inputs: 0 .. MaxSortedVal, with duplicates
MaxSortedVal == 2

SortedInputs ==
    UNION {{a \in [0 .. n - 1 -> 0 .. MaxSortedVal] : Ascending(a, 0, n)} :
               n \in Lengths}

\* part_005 lines 165-168: bitonic_sort(arr, size), ascending
SortedSerialInit ==
    /\ prog = "serial"
    /\ input \in SortedInputs
    /\ arr = input
    /\ direction = 1
    /\ stack = <<Call("sort", 0, Len0(input), direction)>>
    /\ frames = <<>>
    /\ inflight = {}
    /\ nthreads = 1
    /\ unit = 1
    /\ returned = {}
    /\ OtherOff

\* bitonic_openmp.c lines 124-146 on a file of ascending values
SortedFompInit ==
    /\ prog = "fomp"
    /\ input \in SortedInputs
    /\ nthreads \in {1, 2}
    /\ arr = input
    /\ fpc = "pad"
    /\ passk = 0
    /\ passj = 0
    /\ cursor = <<>>
    /\ merge_width = 0
    /\ output = <<>>
    /\ direction = 1
    /\ stack = <<>>
    /\ frames = <<>>
    /\ inflight = {}
    /\ unit = 1
    /\ returned = {}
    /\ MpiOff
    /\ MainOff

SortedInit == SortedSerialInit \/ SortedFompInit

SortedNext == SerialNext \/ FompNext

SortedSpec == SortedInit /\ [][SortedNext]_vars

(***************************************************************************)
(* The sequential network called on a segment of a longer array: the       *)
(* bottom of `stack' is the caller, waiting for                            *)
(* bitonic_sort_recursive(arr, low, count, ascending) to return.           *)
(***************************************************************************)
\* length of the array that holds the segment
SegLen == 6

SegInit ==
    /\ prog = "serial"
    /\ input \in [0 .. SegLen - 1 -> {0, 1}]
    /\ arr = input
    /\ direction \in {0, 1}
    /\ stack \in UNION {{<<Call("sort", low, count, direction),
                             Call("caller", low, count, direction)>> :
                               low \in 0 .. SegLen - count} : count \in {1, 2, 4}}
    /\ frames = <<>>
    /\ inflight = {}
    /\ nthreads = 1
    /\ unit = 1
    /\ returned = {}
    /\ OtherOff

SegSpec == SegInit /\ [][SerialNext]_vars

(***************************************************************************)
(* bitonic_merge called on a segment whose first half is ascending and     *)
(* whose second half is descending; the bottom of `stack' is the caller.   *)
(***************************************************************************)
\* values of the segments: 0 .. MaxMergeVal
MaxMergeVal == 3

UpDownInputs ==
    UNION {{a \in [0 .. n - 1 -> 0 .. MaxMergeVal] :
                Ascending(a, 0, n \div 2) /\ Descending(a, n \div 2, n \div 2)} :
               n \in {2, 4, 8}}

MergeInit ==
    /\ prog = "serial"
    /\ input \in UpDownInputs
    /\ arr = input
    /\ direction \in {0, 1}
    /\ stack = <<Call("merge", 0, Len0(input), direction),
                 Call("caller", 0, Len0(input), direction)>>
    /\ frames = <<>>
    /\ inflight = {}
    /\ nthreads = 1
    /\ unit = 1
    /\ returned = {}
    /\ OtherOff

MergeNext ==
    \/ SerialMerge
    \/ SerialLoop

MergeSpec == MergeInit /\ [][MergeNext]_vars

(***************************************************************************)
(* next_power_of_two called on its own: the head of `stack' is the call    *)
(* with its local p, the bottom is the caller waiting for the result.      *)
(***************************************************************************)
\* every n up to MaxSmallN is an argument, and around every power of two
MaxSmallN == 40

NptArguments ==
    1 .. MaxSmallN
        \cup UNION {{2 ^ e - 1, 2 ^ e, 2 ^ e + 1} : e \in 1 .. 30}
        \cup {INT_MAX - 1, INT_MAX}

\* lines 6-8: the call, p = 1
NptInit ==
    /\ prog = "next_power_of_two"
    /\ stack \in {<<[op |-> "loop", n |-> n, p |-> 1],
                     [op |-> "caller", n |-> n, p |-> 0]>> : n \in NptArguments}
    /\ input = <<>>
    /\ arr = <<>>
    /\ direction = 1
    /\ frames = <<>>
    /\ inflight = {}
    /\ nthreads = 1
    /\ unit = 1
    /\ returned = {}
    /\ OtherOff

\* lines 9-12: the loop test holds and p is shifted
NptShift ==
    /\ prog = "next_power_of_two"
    /\ Head(stack).op = "loop"
    /\ Head(stack).p < Head(stack).n
    /\ stack' = <<[Head(stack) EXCEPT !.p = shift_left_one(@)]>> \o Tail(stack)
    /\ UNCHANGED arr
    /\ SerialIdle

\* lines 9 and 13: the loop test fails and p is returned to the caller
NptReturn ==
    /\ prog = "next_power_of_two"
    /\ Head(stack).op = "loop"
    /\ ~(Head(stack).p < Head(stack).n)
    /\ stack' = <<[op |-> "returned", n |-> Head(stack).n, p |-> Head(stack).p]>>
    /\ UNCHANGED arr
    /\ SerialIdle

NptNext ==
    \/ NptShift
    \/ NptReturn

NptSpec == NptInit /\ [][NptNext]_vars

\* the function runs: a step it can take is taken
NptFairSpec ==
    /\ NptSpec
    /\ WF_vars(NptShift)
    /\ WF_vars(NptReturn)

(***************************************************************************)
(* CUDA executor (Assignment3/CUDA/cuda_bitonic.cu): one thread of a       *)
(* launch of bitonic_sort_kernel.  The head of `stack' is the thread with  *)
(* the kernel's arguments and, once it has run, its locals.                *)
(***************************************************************************)
THREADS_PER_BLOCK == 256

\* line 258: bitonic_sort_cuda launches the shared-memory kernel for this
\* stage and step, and bitonic_sort_kernel otherwise
shared_kernel_launched(stg, stp) ==
    stp <= THREADS_PER_BLOCK /\ stg <= 2 * THREADS_PER_BLOCK

PowersOfTwo(lo, hi) == {2 ^ e : e \in 0 .. 30} \cap (lo .. hi)

\* lines 252-266: the launches <<stage, step>> of bitonic_sort_kernel for an
\* array of size elements
KernelLaunches(size) ==
    {l \in PowersOfTwo(2, size) \X PowersOfTwo(1, size) :
         l[2] <= l[1] \div 2 /\ ~shared_kernel_launched(l[1], l[2])}

\* array sizes of the CUDA runs
CudaSizes == {1024, 2048}

\* thread ids of a launch that are followed: the ends of the blocks
CudaThreads(size) ==
    {t \in UNION {{THREADS_PER_BLOCK * b, THREADS_PER_BLOCK * b + 1,
                   THREADS_PER_BLOCK * (b + 1) - 1} : b \in 0 .. 3} : t < size \div 2}

CudaInit ==
    /\ prog = "cuda"
    /\ input \in {[x \in 0 .. size - 1 |-> size - 1 - x] : size \in CudaSizes}
    /\ arr = input
    /\ stack \in {<<[op |-> "kernel", stage |-> l[1], step |-> l[2], tid |-> t,
                      i |-> 0, j |-> 0, ascending |-> 0]>> :
                       l \in KernelLaunches(Len0(input)), t \in CudaThreads(Len0(input))}
    /\ direction = 1
    /\ frames = <<>>
    /\ inflight = {}
    /\ nthreads = 1
    /\ unit = 1
    /\ returned = {}
    /\ OtherOff

\* line 151
kernel_direction(tid, i, stg) == CBool((tid \div stg) % 2 = 0)

\* lines 138-155: the thread tid of the launch runs
CudaThread ==
    /\ prog = "cuda"
    /\ Head(stack).op = "kernel"
    /\ LET c == Head(stack)
           size == Len0(arr)
           i == (c.tid % c.step) + (c.tid \div c.step) * c.step * 2
           j == i + c.step
           ascending == kernel_direction(c.tid, i, c.stage)
       IN  \/ /\ c.tid < size \div 2 /\ j < size
              /\ arr' = compare_and_swap(arr, i, j, ascending)
              /\ stack' = <<[c EXCEPT !.op = "compared", !.i = i, !.j = j,
                                      !.ascending = ascending]>>
           \/ /\ ~(c.tid < size \div 2 /\ j < size)
              /\ arr' = arr
              /\ stack' = <<[c EXCEPT !.op = "idle"]>>
    /\ SerialIdle

CudaNext == CudaThread

CudaSpec == CudaInit /\ [][CudaNext]_vars

(***************************************************************************)
(* The comparators called on their own: the head of `stack' is the call    *)
(* compare_and_swap(arr, i, j, ascending) of part_005, or                  *)
(* compare_and_swap(&arr[i], &arr[j], direction) of part_004.              *)
(***************************************************************************)
\* length of the array the comparators are called on
CmpLen == 3

CmpInit ==
    /\ prog \in {"cmp_index", "cmp_pointer"}
    /\ input \in [0 .. CmpLen - 1 -> 0 .. MaxSortedVal]
    /\ arr = input
    /\ direction \in {0, 1}
    /\ stack \in {<<[op |-> "compare", i |-> i, j |-> j, ascending |-> direction]>> :
                       i \in 0 .. CmpLen - 1, j \in 0 .. CmpLen - 1}
    /\ frames = <<>>
    /\ inflight = {}
    /\ nthreads = 1
    /\ unit = 1
    /\ returned = {}
    /\ OtherOff

\* part_005 lines 100-109
CmpIndex ==
    /\ prog = "cmp_index"
    /\ stack # <<>>
    /\ arr' = compare_and_swap(arr, Head(stack).i, Head(stack).j, Head(stack).ascending)
    /\ stack' = Tail(stack)
    /\ SerialIdle

\* part_004 lines 352-360
CmpPointer ==
    /\ prog = "cmp_pointer"
    /\ stack # <<>>
    /\ arr' = compare_and_swap_p2(arr, Head(stack).i, Head(stack).j, Head(stack).ascending)
    /\ stack' = Tail(stack)
    /\ SerialIdle

CmpNext ==
    \/ CmpIndex
    \/ CmpPointer

CmpSpec == CmpInit /\ [][CmpNext]_vars

(***************************************************************************)
(* Properties                                                              *)
(***************************************************************************)
ExampleDescending == [i \in 0 .. 7 |-> <<9, 8, 7, 5, 4, 3, 2, 1>>[i + 1]]
ExampleAscending == [i \in 0 .. 7 |-> <<1, 2, 3, 4, 5, 7, 8, 9>>[i + 1]]

\* C1: when bitonic_sort_recursive(arr, 0, n, direction) has returned on an
\* array of power-of-two length, every adjacent pair is ordered in the
\* direction asked for; the scenario sorted descending is 9 8 7 5 4 3 2 1.
Thm_C1 ==
    SerialDone =>
        /\ Monotonic(arr, 0, Len0(arr), direction)
        /\ (input = Example /\ direction = 0 => arr = ExampleDescending)

Wit_C1 ==
    /\ SerialDone
    /\ input = Example
    /\ direction = 0
    /\ arr = ExampleDescending

\* C4: in the serial network and in the shared-memory executor, under every
\* interleaving, the array holds the multiset of the input after every
\* completed compare_and_swap and at the end of the sort.
Thm_C4 == SameMultiset(arr, input)

Wit_C4 ==
    /\ prog = "openmp"
    /\ nthreads > 1
    /\ \E x \in inflight : x.swap
    /\ arr # input

\* C5: for every input, thread count and interleaving, the shared-memory
\* executor ends with the array the serial bitonic_sort computes.
Thm_C5 == OmpDone => arr = bitonic_sort(input, Len0(input))

Wit_C5 ==
    /\ OmpDone
    /\ nthreads = 4
    /\ unit = 1024
    /\ input = Example
    /\ arr = ExampleAscending

\* both recursive sorts of the segment of the sort at path q have returned,
\* and nothing they called or forked is still live
HalvesComplete(q) ==
    \A c \in {1, 2} :
        /\ (q \o <<c>>) \in returned
        /\ \A r \in Paths \cup {y.path : y \in inflight} : ~IsPrefix(q \o <<c>>, r)

\* C9: a compare_and_swap of the merge of a segment (its loop or a merge
\* nested in it) is begun only after both recursive sorts of the halves of
\* the segment have completed with all the work they spawned.
Thm_C9 ==
    \A x \in inflight :
        \A n \in 1 .. Len(x.path) :
            x.path[n] = 3 => HalvesComplete(SubSeq(x.path, 1, n - 1))

Wit_C9 ==
    /\ nthreads > 1
    /\ SortStrategy(RealCount(Len0(input))) = "task"
    /\ \E x \in inflight : x.path = <<3>>
    /\ {<<1>>, <<2>>, <<1, 3>>, <<2, 3>>} \subseteq returned

Touched(x) == {x.i, x.j}

Segment(p) == frames[p].low .. frames[p].low + frames[p].count - 1

\* C10: two compare_and_swap calls in progress at the same time touch
\* disjoint indices, and two activations live at the same time, neither
\* called by the other, work on disjoint segments.
Thm_C10 ==
    /\ \A x, y \in inflight : x # y => Touched(x) \cap Touched(y) = {}
    /\ \A p, q \in Paths :
          ~IsPrefix(p, q) /\ ~IsPrefix(q, p) => Segment(p) \cap Segment(q) = {}

Wit_C10 ==
    \E x, y, z \in inflight :
        /\ x # y /\ x.path = y.path
        /\ z.path # x.path

\* C2: when every rank of a power-of-two world has returned from
\* advanced_bitonic_sort_mpi, the blocks in rank order are ascending; the
\* scenario split over 1, 2 or 4 ranks gives 1 2 3 4 5 7 8 9.
Cex_C2 ==
    MpiDone =>
        /\ Ascending(Gathered, 0, world * lsize)
        /\ (input = Example => Gathered = ExampleAscending)

\* C3: when every rank has returned, the blocks together hold the multiset
\* the blocks held before the call.
Cex_C3 == MpiDone => SameMultiset(Gathered, input)

\* C6: for every input of length n >= 1, with or without INT_MAX among its
\* values, the file-based shared-memory program pads to next_power_of_two(n)
\* and writes exactly n values, the input's elements in ascending order; the
\* positions n .. padded - 1 of the sorted array hold INT_MAX; the scenario
\* 4 1 3 2 5 gives 1 2 3 4 5.
Thm_C6 ==
    FompDone =>
        /\ DOMAIN output = DOMAIN input
        /\ Ascending(output, 0, Len0(input))
        /\ SameMultiset(output, input)
        /\ Len0(arr) = next_power_of_two(Len0(input))
        /\ \A i \in Len0(input) .. Len0(arr) - 1 : arr[i] = INT_MAX
        /\ (input = Scenario5 => output = Sorted5)

Wit_C6 ==
    /\ FompDone
    /\ nthreads = 4
    /\ Len0(input) = 5
    /\ input[0] = INT_MAX
    /\ input[4] = 0
    /\ output[0] = 0
    /\ output[4] = INT_MAX

\* C7: for every input of length n >= 1 and every power-of-two world size,
\* the first file-based distributed program writes exactly n values, the
\* input's elements in ascending order.
Cex_C7 ==
    Mp1Done =>
        /\ DOMAIN output = DOMAIN input
        /\ Ascending(output, 0, Len0(input))
        /\ SameMultiset(output, input)

\* C8: for every input, every thread count and every process count in
\* {1, 2, 4, 8, 16}, the file-based shared-memory program and the second
\* file-based distributed program write the same sequence: each writes
\* what the shared-memory program writes when run by one thread.
Thm_C8 == (FompDone \/ Mp2Done) => output = openmp_output(input)

Wit_C8 ==
    /\ Mp2Done
    /\ world = 16
    /\ input = Scenario5
    /\ output = Sorted5

\* the blocks a rank that has received its partner's block holds: its own
\* (temp_buffer) and the partner's (recv_buffer)
InRound(r) == prog = "mpi" /\ r \in Ranks /\ mpc[r] = "merge"

\* what rank a keeps when it merges its block mine with the block theirs of
\* rank b in a round of the stage s
KeptBy(a, b, mine, theirs, s) ==
    split(merged_arr(mine, theirs, lsize), lsize, a, b, RoundAscending(a, s))

Concat(a, b, n) == [x \in 0 .. 2 * n - 1 |-> IF x < n THEN a[x] ELSE b[x - n]]

\* C11: in every merge-split round exactly one of the two partners keeps the
\* smaller half of the merged blocks and the other the larger half, so the
\* two together keep every element of the two exchanged blocks.
Cex_C11 ==
    \A r \in Ranks :
        InRound(r) =>
            /\ TakesSmaller(r, PartnerOf(r, step[r]), RoundAscending(r, stage[r]))
                   # TakesSmaller(PartnerOf(r, step[r]), r,
                                  RoundAscending(PartnerOf(r, step[r]), stage[r]))
            /\ SameMultiset(
                   Concat(KeptBy(r, PartnerOf(r, step[r]), tempbuf[r], recvbuf[r], stage[r]),
                          KeptBy(PartnerOf(r, step[r]), r, recvbuf[r], tempbuf[r], stage[r]),
                          lsize),
                   Concat(tempbuf[r], recvbuf[r], lsize))

\* C12: in a power-of-two world every rank's partner in every round is a
\* rank of the world other than itself, so the test partner < num_procs never
\* skips a round, and the partner's partner in that round is the rank.
Thm_C12 ==
    \A r \in Ranks :
        prog = "mpi" /\ mpc[r] \in {"loop", "wait", "merge"} /\ stage[r] < world =>
            /\ PartnerOf(r, step[r]) \in Ranks
            /\ PartnerOf(r, step[r]) # r
            /\ PartnerOf(PartnerOf(r, step[r]), step[r]) = r

Wit_C12 ==
    /\ prog = "mpi"
    /\ world = 4
    /\ mpc[3] = "wait"
    /\ stage[3] = 2
    /\ step[3] = 2
    /\ PartnerOf(3, step[3]) = 1

\* C13: no rank begins a merge-split round before every rank has completed
\* the round before it.
Cex_C13 ==
    \A r, q \in Ranks :
        prog = "mpi" /\ mpc[r] \in {"wait", "merge"} => rounds[q] >= rounds[r]

\* the strategy of the recursive calls of the activation at path p
StrategyOf(p) ==
    IF frames[p].fn = "sort"
    THEN SortStrategy(RealCount(frames[p].count))
    ELSE MergeStrategy(RealCount(frames[p].count))

\* the children of p that are the two recursive calls of its segment's halves
BothHalvesLive(p) == Live(p \o <<1>>) /\ Live(p \o <<2>>)

\* C14: a sort or merge activation on a segment of at most ADAPTIVE_THRESHOLD
\* elements runs its two recursive calls one after the other and its loop one
\* iteration at a time, in the thread and parallel region of the caller.
Thm_C14 ==
    \A p \in Paths :
        prog = "openmp" /\ RealCount(frames[p].count) <= ADAPTIVE_THRESHOLD =>
            /\ ~BothHalvesLive(p)
            /\ Cardinality(Mine(p)) <= 1
            /\ \A c \in 1 .. 3 :
                  Live(p \o <<c>>) => frames[p \o <<c>>].level = frames[p].level

Wit_C14 ==
    /\ prog = "openmp"
    /\ nthreads = 4
    /\ \E p, q \in Paths :
          /\ p # q
          /\ RealCount(frames[p].count) = ADAPTIVE_THRESHOLD
          /\ RealCount(frames[q].count) = ADAPTIVE_THRESHOLD
          /\ frames[p].fn = "merge" /\ Mine(p) # {}
          /\ frames[q].fn = "merge" /\ Mine(q) # {}

\* C15: with more than one thread and below the active-level limit, a sort
\* activation on more than ADAPTIVE_THRESHOLD elements never runs its two
\* recursive sorts as plain calls one after the other.
Cex_C15 ==
    \A p \in Paths :
        /\ prog = "openmp"
        /\ frames[p].fn = "sort"
        /\ RealCount(frames[p].count) > ADAPTIVE_THRESHOLD
        /\ nthreads > 1
        /\ frames[p].level < MaxActiveLevels
        => frames[p].pc # "first"

\* the recursive calls of the activation at p get no thread of their own:
\* undeferred tasks, or sections of a region that gets a team of one
Serialised(p) ==
    \/ StrategyOf(p) = "undeferred"
    \/ /\ StrategyOf(p) = "sections"
       /\ ~(frames[p].level < MaxActiveLevels /\ nthreads > 1)

\* C20: the branches of an activation that get no thread of their own are
\* still run, one after the other, and the sort ends with the sorted array.
Thm_C20 ==
    /\ \A p \in Paths :
          prog = "openmp" /\ Serialised(p) =>
              /\ ~BothHalvesLive(p)
              /\ (frames[p].pc = "join" => (p \o <<1>>) \in returned)
              /\ (frames[p].pc = "merging" =>
                     {p \o <<1>>, p \o <<2>>} \subseteq returned)
    /\ (OmpDone =>
          /\ {<<1>>, <<2>>, <<3>>} \subseteq returned
          /\ Ascending(arr, 0, Len0(arr))
          /\ SameMultiset(arr, input))

Wit_C20 ==
    /\ OmpDone
    /\ nthreads = 4
    /\ unit = 1024
    /\ Len0(input) = 4
    /\ arr # input

IsPowerOfTwo(n) == \E e \in 0 .. 30 : n = 2 ^ e

\* the arguments the size-argument programs accept
ValidArguments(size, num_procs) ==
    /\ size > 0
    /\ IsPowerOfTwo(size)
    /\ IsPowerOfTwo(num_procs)
    /\ size % num_procs = 0

InMain == prog \in {"serial_main", "openmp_main", "mpi_main"}

\* C16: a process of a size-argument program reaches its first allocation
\* only with a size that is a positive power of two (and, distributed, a
\* power-of-two process count that divides it); otherwise it exits first,
\* the error is printed by the time rank 0 has exited, and all ranks decide
\* alike.
Thm_C16 ==
    InMain =>
        /\ \A r \in Ranks :
              /\ mpc[r] = "allocate" => ValidArguments(atoi(argv1), world)
              /\ mpc[r] = "exit_error" => ~ValidArguments(atoi(argv1), world)
        /\ (mpc[0] = "exit_error" => reported)
        /\ (reported => ~ValidArguments(atoi(argv1), world))
        /\ \A r, q \in Ranks : ~(mpc[r] = "allocate" /\ mpc[q] = "exit_error")

Wit_C16 ==
    /\ prog = "mpi_main"
    /\ world = 3
    /\ atoi(argv1) = 12
    /\ reported
    /\ \A r \in Ranks : mpc[r] = "exit_error"

\* C18: once the first file-based distributed program has padded and
\* scattered an input of original_count >= 1 values over a power-of-two
\* world, the padded length is the smallest power of two that is at least
\* original_count and a multiple of world_size, the original values are in
\* place, exactly the positions from original_count on hold INT_MAX, and
\* every rank holds a block of padded_count / world_size values, a power of
\* two, cut from the padded array in rank order.
Thm_C18 ==
    (prog = "fmpi1" /\ fpc = "run" /\ Len0(input) >= 1) =>
        LET n == Len0(input)
            padded == Len0(arr)
        IN  /\ IsPowerOfTwo(padded) /\ padded >= n /\ padded % world = 0
            /\ \A q \in 1 .. padded - 1 :
                  ~(IsPowerOfTwo(q) /\ q >= n /\ q % world = 0)
            /\ \A i \in 0 .. n - 1 : arr[i] = input[i]
            /\ \A i \in n .. padded - 1 : arr[i] = INT_MAX
            /\ lsize * world = padded /\ IsPowerOfTwo(lsize)
            /\ \A r \in Ranks :
                  /\ Len0(block[r]) = lsize
                  /\ mpc[r] = "qsort" =>
                        \A x \in 0 .. lsize - 1 : block[r][x] = arr[r * lsize + x]

Wit_C18 ==
    /\ prog = "fmpi1" /\ fpc = "run"
    /\ world = 4
    /\ Len0(input) = 1
    /\ Len0(arr) = 4
    /\ arr[0] = input[0] /\ arr[1] = INT_MAX /\ arr[3] = INT_MAX
    /\ lsize = 1
    /\ \A r \in Ranks : mpc[r] = "qsort"

\* C17: on a world size that is not a power of two the first file-based
\* distributed program stops before any work: it does not stay in the
\* padding loop for ever, and no rank is given a block, sorts or exchanges.
Cex_C17 ==
    (prog = "fmpi1" /\ ~IsPowerOfTwo(world)) =>
        /\ fpc \in {"read", "aborted"}
        /\ \A r \in Ranks : mpc[r] \in {"start", "aborted"}
        /\ \A r \in Ranks : rounds[r] = 0

MpiTerminated(r) == mpc[r] \in {"finished", "exited", "aborted"}

MpiAllocationFailed == \E r \in Ranks : mpc[r] \in {"exited", "aborted"}

\* C19: in a run of mpi_bitonic.c, once an allocation has failed on some
\* rank (in main or in a merge-split round), every rank eventually
\* terminates.
Cex_C19 ==
    (prog = "mpi" /\ MpiAllocationFailed) ~> (\A r \in Ranks : MpiTerminated(r))

\* C21: the sequential network, asked for ascending order, and the
\* iterative network of the file-based shared-memory program return an
\* ascending array of power-of-two length (duplicates allowed) exactly as
\* it was given.
Thm_C21 ==
    (IsPowerOfTwo(Len0(input)) /\ Ascending(input, 0, Len0(input))) =>
        /\ (SerialDone /\ direction = 1 => arr = input)
        /\ (prog = "fomp" /\ fpc \in {"write", "done"} => arr = input)
        /\ (FompDone => output = input)

Wit_C21 ==
    /\ SerialDone
    /\ direction = 1
    /\ input = [i \in 0 .. 7 |-> <<0, 0, 1, 1, 1, 2, 2, 2>>[i + 1]]
    /\ arr = input

\* what a comparator call c has to leave in `after', called on `before'
ComparatorContract(before, after, c) ==
    /\ DOMAIN after = DOMAIN before
    /\ (c.ascending = 1 => after[c.i] <= after[c.j])
    /\ (c.ascending = 0 => after[c.i] >= after[c.j])
    /\ \/ after[c.i] = before[c.i] /\ after[c.j] = before[c.j]
       \/ after[c.i] = before[c.j] /\ after[c.j] = before[c.i]
    /\ \A x \in DOMAIN before \ {c.i, c.j} : after[x] = before[x]

\* C22: a call of either comparator with direction 0 or 1 leaves the first
\* slot <= the second (ascending) or >= the second (descending), the two
\* slots hold the two original values, and no other slot changes.
Thm_C22 ==
    [][(prog \in {"cmp_index", "cmp_pointer"} /\ stack # <<>>) =>
           ComparatorContract(arr, arr', Head(stack))]_vars

Wit_C22 ==
    /\ prog = "cmp_pointer"
    /\ stack = <<>>
    /\ direction = 0
    /\ input[0] = 1 /\ input[1] = 2
    /\ arr[0] = 2 /\ arr[1] = 1
    /\ \A x \in 2 .. CmpLen - 1 : arr[x] = input[x]

\* the indices of a call
CallRange(c) == c.low .. c.low + c.count - 1

\* the call that started the run and has not returned
TopCall(stk) == stk[Len(stk)]

\* C23: started on a segment of power-of-two length, every call of
\* bitonic_sort_recursive and bitonic_merge has a power-of-two count and a
\* range inside the range of the call that made it, every compare_and_swap
\* works on two indices of its merge's range, and no element outside the
\* top-level segment changes.
Thm_C23 ==
    [][(prog = "serial" /\ stack # <<>> /\ TopCall(stack).op = "caller") =>
           /\ \A m \in 1 .. Len(stack') - Len(stack) + 1 :
                 /\ IsPowerOfTwo(stack'[m].count)
                 /\ CallRange(stack'[m]) \subseteq CallRange(Head(stack))
           /\ \A m \in 1 .. Len(stack') : CallRange(stack'[m]) \subseteq CallRange(TopCall(stack))
           /\ (Head(stack).op = "loop" /\ arr' # arr =>
                 {x \in DOMAIN arr : arr'[x] # arr[x]} \subseteq
                     {Head(stack).i, Head(stack).i + Head(stack).count \div 2})
           /\ (Head(stack).op = "loop" /\ Head(stack).i < Head(stack).low + Head(stack).count \div 2 =>
                 {Head(stack).i, Head(stack).i + Head(stack).count \div 2}
                     \subseteq CallRange(Head(stack)))
           /\ \A x \in DOMAIN arr \ CallRange(TopCall(stack)) : arr'[x] = input[x]]_vars

Wit_C23 ==
    /\ prog = "serial"
    /\ Len(stack) = 1
    /\ stack[1] = Call("caller", 1, 4, 1)
    /\ input = [x \in 0 .. SegLen - 1 |-> IF x \in {1, 2} THEN 1 ELSE 0]
    /\ arr = [x \in 0 .. SegLen - 1 |-> IF x \in {3, 4} THEN 1 ELSE 0]

\* a[lo .. lo + n - 1] read from position r on, cyclically, rises to
\* position p - 1 and falls from there
UpDownFrom(a, lo, n, r, p) ==
    /\ \A x \in 0 .. p - 2 : a[lo + ((x + r) % n)] <= a[lo + ((x + 1 + r) % n)]
    /\ \A x \in p - 1 .. n - 2 : a[lo + ((x + r) % n)] >= a[lo + ((x + 1 + r) % n)]

\* a bitonic sequence: a rotation of a sequence that rises and then falls
Bitonic(a, lo, n) == \E r \in 0 .. n - 1 : \E p \in 1 .. n : UpDownFrom(a, lo, n, r, p)

\* the top-level merge of a run of MergeSpec has finished its loop and is
\* about to make its first recursive call
AfterFirstPass ==
    /\ prog = "serial"
    /\ Len(stack) = 3
    /\ stack[3].op = "caller"
    /\ stack[1] = Call("merge", 0, stack[3].count \div 2, direction)
    /\ stack[2] = Call("merge", stack[3].count \div 2, stack[3].count \div 2, direction)

MergeReturned == prog = "serial" /\ Len(stack) = 1 /\ stack[1].op = "caller"

\* C24: bitonic_merge on a segment of power-of-two length with an ascending
\* first half and a descending second half: after the first pass every
\* element of the lower half is <= (direction 1) or >= (direction 0) every
\* element of the upper half and each half is bitonic; on return the segment
\* is ascending (direction 1) or descending (direction 0), with the values
\* it had.
Thm_C24 ==
    /\ AfterFirstPass =>
          LET k == stack[3].count \div 2
          IN  /\ \A x \in 0 .. k - 1 : \A y \in k .. 2 * k - 1 :
                    IF direction = 1 THEN arr[x] <= arr[y] ELSE arr[x] >= arr[y]
              /\ Bitonic(arr, 0, k)
              /\ Bitonic(arr, k, k)
    /\ MergeReturned =>
          /\ Monotonic(arr, 0, Len0(arr), direction)
          /\ SameMultiset(arr, input)

Wit_C24 ==
    /\ AfterFirstPass
    /\ direction = 1
    /\ input = [x \in 0 .. 7 |-> <<0, 1, 2, 3, 3, 2, 1, 0>>[x + 1]]
    /\ arr = [x \in 0 .. 7 |-> <<0, 1, 1, 0, 3, 2, 2, 3>>[x + 1]]

\* C25: in the distributed executor a rank's block is ascending once the
\* local sort is done and after every merge-split round, whatever the
\* round's direction; so the blocks in flight and the two inputs of every
\* two-pointer merge are ascending.
Thm_C25 ==
    prog = "mpi" =>
        /\ \A r \in Ranks :
              /\ mpc[r] # "local_sort" => Ascending(block[r], 0, lsize)
              /\ mpc[r] = "merge" =>
                    /\ Ascending(tempbuf[r], 0, lsize)
                    /\ Ascending(recvbuf[r], 0, lsize)
        /\ \A e \in DOMAIN chan : \A m \in 1 .. Len(chan[e]) :
              Ascending(chan[e][m], 0, lsize)

Wit_C25 ==
    /\ prog = "mpi"
    /\ world = 2
    /\ input = Example
    /\ rounds[1] = 1
    /\ block[1] = [x \in 0 .. 3 |-> x + 1]

RECURSIVE schedule_from(_, _, _)
\* the rounds <<stage, step>> of the loops of advanced_bitonic_sort_mpi in
\* order, from the round (stage, step) on
schedule_from(stg, stp, np) ==
    IF stg < np
    THEN <<<<stg, stp>>>> \o (IF stp \div 2 > 0
                             THEN schedule_from(stg, stp \div 2, np)
                             ELSE schedule_from(2 * stg, 2 * stg, np))
    ELSE <<>>

RoundSchedule == schedule_from(1, 1, world)

\* the blocks of all ranks at the start of round k + 1 when the rounds are
\* run one after the other, every rank merging the block its partner had at
\* the start of the round
RoundStartBlocks(k) ==
    LET start[m \in 0 .. k] ==
            IF m = 0
            THEN [r \in Ranks |-> bitonic_sort_local(Scattered(input, world, r), lsize)]
            ELSE [r \in Ranks |->
                     LET p == PartnerOf(r, RoundSchedule[m][2])
                     IN  split(merged_arr(start[m - 1][r], start[m - 1][p], lsize),
                               lsize, r, p, RoundAscending(r, RoundSchedule[m][1]))]
    IN  start[k]

\* C26: in every interleaving of the distributed executor, a rank that has
\* done k rounds holds the block of the round-by-round run, and the block it
\* merges in round k + 1 is the whole block its partner held at the start
\* of round k + 1, not a block of another round or a block being updated.
Thm_C26 ==
    prog = "mpi" =>
        \A r \in Ranks :
            mpc[r] # "local_sort" =>
                /\ block[r] = RoundStartBlocks(rounds[r])[r]
                /\ mpc[r] \in {"wait", "merge"} =>
                      tempbuf[r] = RoundStartBlocks(rounds[r])[r]
                /\ mpc[r] = "merge" =>
                      recvbuf[r] = RoundStartBlocks(rounds[r])[PartnerOf(r, step[r])]

Wit_C26 ==
    /\ prog = "mpi"
    /\ world = 4
    /\ input = Example
    /\ mpc[0] = "merge" /\ rounds[0] = 0
    /\ rounds[1] = 2
    /\ Len(chan[<<1, 0>>]) = 1
    /\ chan[<<1, 0>>][1] # recvbuf[0]

RECURSIVE Log2(_)
Log2(n) == IF n <= 1 THEN 0 ELSE 1 + Log2(n \div 2)

\* log2(P) * (log2(P) + 1) / 2
ExpectedRounds(np) == (Log2(np) * (Log2(np) + 1)) \div 2

AllReturned ==
    /\ MpiDone
    /\ \A r \in Ranks : rounds[r] = ExpectedRounds(world)
    /\ \A e \in DOMAIN chan : chan[e] = <<>>

\* C27: on a power-of-two world, with FIFO channels, fair scheduling and no
\* failure, every rank eventually returns from advanced_bitonic_sort_mpi,
\* after exactly log2(P) * (log2(P) + 1) / 2 exchange rounds and with every
\* block it was sent received.
Thm_C27 == (prog = "mpi") ~> AllReturned

Wit_C27 ==
    /\ AllReturned
    /\ world = 4
    /\ \A r \in Ranks : rounds[r] = 3
    /\ input = Example

\* the padded array bitonic_sort of the file program is called on
FompPadded == pad(input, Len0(input), next_power_of_two(Len0(input)))

\* iteration i of the current pass has been run by the thread that owns it
IterationDone(i) ==
    \E t \in Threads : ChunkStart(t, Len0(arr)) <= i /\ i < cursor[t]

\* C28: in the iterative network of the file-based shared-memory program
\* every index belongs to exactly one iteration of a pass, the one with the
\* smaller index of the pair i, i XOR j; a pass starts on the array all
\* iterations of the passes before it have left; inside a pass each pair
\* holds what its own iteration left or found, whatever the other threads
\* have done; and the sorted array is the one a single thread produces.
Thm_C28 ==
    (prog = "fomp" /\ fpc \in {"loop", "team", "write", "done"}) =>
        LET n == Len0(arr)
            start == before_pass(FompPadded, n, passk, passj)
        IN  /\ fpc \in {"loop", "team"} /\ passk <= n =>
                  \A x \in 0 .. n - 1 :
                      /\ Cardinality({i \in 0 .. n - 1 : x \in iteration_slots(i, passj)}) = 1
                      /\ x \in iteration_slots(IF BitXor(x, passj) < x
                                                THEN BitXor(x, passj) ELSE x, passj)
            /\ fpc = "loop" => arr = start
            /\ fpc = "team" =>
                  \A i \in 0 .. n - 1 : \A x \in iteration_slots(i, passj) :
                      arr[x] = IF IterationDone(i)
                               THEN iteration(start, i, passk, passj)[x]
                               ELSE start[x]
            /\ fpc \in {"write", "done"} => arr = bitonic_sort_file(FompPadded, n)

Wit_C28 ==
    /\ prog = "fomp" /\ fpc = "team"
    /\ nthreads = 4
    /\ input = Scenario5
    /\ passk = 2 /\ passj = 1
    /\ cursor[0] = 2 /\ cursor[1] = 2 /\ cursor[2] = 4 /\ cursor[3] = 8
    /\ arr[0] = 1 /\ arr[1] = 4

\* p is the smallest power of two that is at least n
SmallestPowerOfTwoAtLeast(p, n) ==
    /\ IsPowerOfTwo(p)
    /\ p >= n
    /\ \A e \in 0 .. 30 : 2 ^ e >= n => 2 ^ e >= p

NptSmall ==
    (prog = "next_power_of_two" /\ Head(stack).n <= 2 ^ 30) ~>
        (/\ Head(stack).op = "returned"
         /\ SmallestPowerOfTwoAtLeast(Head(stack).p, Head(stack).n))

\* C30: a thread of bitonic_sort_kernel that compares its pair (i, i + step)
\* uses the direction ((i AND stage) == 0), and so leaves the array the
\* iteration i of the reference network of bitonic_openmp.c leaves at
\* k = stage, j = step.
Cex_C30 ==
    (prog = "cuda" /\ Head(stack).op = "compared") =>
        /\ Head(stack).j = BitXor(Head(stack).i, Head(stack).step)
        /\ Head(stack).ascending = CBool(BitAnd(Head(stack).i, Head(stack).stage) = 0)
        /\ arr = iteration(input, Head(stack).i, Head(stack).stage, Head(stack).step)

====
